---- MODULE Spec2Model ----
(***************************************************************************)
(* Model of the incremental text-analysis engine of wordwise: the          *)
(* SpellCheckExtension (LanguageTool variant) of                           *)
(* src/components/spell-check-sidebar.tsx, lines 208-1087.                 *)
(*                                                                         *)
(* The document is a ProseMirror document made of top-level textblocks.    *)
(* Positions are ProseMirror positions: a block at position p with a text  *)
(* of n characters has nodeSize n + 2, its characters sit at p+1 .. p+n.   *)
(* A text is a sequence of one-character strings.                          *)
(***************************************************************************)
EXTENDS Integers, Sequences, FiniteSets, TLC

\* ------------------------------------------------------------------ bounds
MaxLen == 2
MaxIns == 2
MaxDel == 2
MaxSteps == 9
MaxInFlight == 2
MaxFindings == 3
MaxStepsTwoBlocks == 7
MaxStepsAnalyzed == 6
MaxBatches == 1
MaxStepsLoaded == 6
MaxStepsRetext == 7

\* --------------------------------------------------------------- constants
MaxInt32 == 2147483647

\* Characters of the model.  "A" and "a" are the two cases of one letter that
\* the analyzer flags; "B" is a letter it accepts.
Alphabet == {"A", "a", "B"}

Flagged == {"A", "a"}

Whitespace == {" "}

\* String.prototype.charCodeAt for the characters of the model.
charCodeAt(c) == CASE c = "A" -> 65 [] c = "B" -> 66 [] c = "a" -> 97 [] c = " " -> 32 [] OTHER -> 0

\* String.prototype.toLowerCase, character by character.
toLowerCaseChar(c) == CASE c = "A" -> "a" [] c = "B" -> "b" [] OTHER -> c

toLowerCase(w) == [k \in 1..Len(w) |-> toLowerCaseChar(w[k])]

\* text.trim() is the empty string
IsBlank(text) == \A k \in 1..Len(text) : text[k] \in Whitespace

TextsUpTo(n) == UNION {[1..k -> Alphabet] : k \in 0..n}

Some(x) == <<x>>

None == <<>>

\* ---------------------------------------------------------------- document
Paragraph(text) == [type |-> "paragraph", text |-> text]

\* a code block: a text block that the analysis must leave alone
CodeBlock(text) == [type |-> "codeBlock", text |-> text]

\* a quote: a block whose content is a sequence of blocks
Blockquote(children) == [type |-> "blockquote", text |-> <<>>, children |-> children]

HasChildren(b) == "children" \in DOMAIN b

RECURSIVE nodeSize(_)
RECURSIVE SizeOfRange(_, _, _)
\* node.nodeSize: the content and the two boundary tokens
nodeSize(b) == IF HasChildren(b) THEN SizeOfRange(b.children, 1, Len(b.children)) + 2 ELSE Len(b.text) + 2

\* the sizes of the blocks a..b of d, summed by halves
SizeOfRange(d, a, b) ==
    IF a > b THEN 0
    ELSE IF a = b THEN nodeSize(d[a])
    ELSE SizeOfRange(d, a, (a + b) \div 2) + SizeOfRange(d, (a + b) \div 2 + 1, b)

SizeOfPrefix(d, n) == SizeOfRange(d, 1, n)

RECURSIVE textContent(_)
RECURSIVE TextOfPrefix(_, _)
\* node.textContent: the texts of all descendants, concatenated
textContent(b) == IF HasChildren(b) THEN TextOfPrefix(b.children, Len(b.children)) ELSE b.text

TextOfPrefix(d, n) == IF n = 0 THEN <<>> ELSE TextOfPrefix(d, n - 1) \o textContent(d[n])

\* position of block i, as doc.descendants reports it
NodePos(d, i) == SizeOfPrefix(d, i - 1)

\* doc.content.size
ContentSize(d) == SizeOfPrefix(d, Len(d))

\* The token that occupies [p, p+1) of the document: a character of a text,
\* or the opening "<" or closing ">" boundary of a block.
RECURSIVE TokensOfPrefix(_, _)
TokensOfPrefix(d, n) == IF n = 0 THEN <<>> ELSE TokensOfPrefix(d, n - 1) \o <<"<">> \o d[n].text \o <<">">>

Tokens(d) == TokensOfPrefix(d, Len(d))

\* the content of the document between two positions
Slice(d, from, to) == SubSeq(Tokens(d), from + 1, to)

\* the positions a text cursor can take
CursorPositions(d) == UNION {{NodePos(d, i) + 1 + o : o \in 0..Len(d[i].text)} : i \in 1..Len(d)}

BlockOfCursor(d, p) == CHOOSE i \in 1..Len(d) : NodePos(d, i) + 1 <= p /\ p <= NodePos(d, i) + 1 + Len(d[i].text)

InsertAt(text, o, t) == SubSeq(text, 1, o) \o t \o SubSeq(text, o + 1, Len(text))

DeleteAt(text, o, n) == SubSeq(text, 1, o - n) \o SubSeq(text, o + 1, Len(text))

\* ----------------------------------------------------------- position map
\* A ReplaceStep that replaces [from, to) by `size` inserted characters.
\* StepMap.map(pos, assoc) of prosemirror-transform.
MapPos(step, pos, assoc) ==
    LET oldSize == step.to - step.from
        side == IF oldSize = 0 THEN assoc ELSE IF pos = step.from THEN -1 ELSE IF pos = step.to THEN 1 ELSE assoc
    IN  IF pos < step.from THEN pos
        ELSE IF pos > step.to THEN pos + step.size - oldSize
        ELSE step.from + (IF side < 0 THEN 0 ELSE step.size)

\* mapping.map(pos): assoc defaults to 1
MappingMap(step, pos) == MapPos(step, pos, 1)

\* ----------------------------------------------------------------- hashing
\* hash & hash: ToInt32 of a value that exceeds the 32-bit range
ToInt32(x) == IF x > MaxInt32 THEN x - MaxInt32 - MaxInt32 - 2 ELSE x

RECURSIVE HashPrefix(_, _)
HashPrefix(text, n) == IF n = 0 THEN 0 ELSE ToInt32((HashPrefix(text, n - 1) * 32 - HashPrefix(text, n - 1)) + charCodeAt(text[n]))

hashText(text) == HashPrefix(text, Len(text))

\* ---------------------------------------------------------------- analyzer
\* checkGrammar(text): the matches the LanguageTool service reports.  The
\* service flags every maximal run of flagged letters as one word; offsets are
\* 0-based and relative to the text sent.
RunEnd(text, i) == CHOOSE e \in i..Len(text) : (\A k \in i..e : text[k] \in Flagged) /\ (e = Len(text) \/ text[e + 1] \notin Flagged)

RECURSIVE MatchesFrom(_, _)
MatchesFrom(text, i) ==
    IF i > Len(text) THEN <<>>
    ELSE IF text[i] \in Flagged
         THEN <<[offset |-> i - 1, length |-> RunEnd(text, i) - i + 1]>> \o MatchesFrom(text, RunEnd(text, i) + 1)
         ELSE MatchesFrom(text, i + 1)

checkGrammar(text) == MatchesFrom(text, 1)

\* text.substring(a, b)
Substring(text, a, b) == SubSeq(text, a + 1, b)

categorizeLanguageToolError(word) == "correctness"

generateReadableRuleId(word) == "Spelling Error"

\* The MisspelledWord built from one match, or None when a validation rejects it.
MatchToWord(text, position, match) ==
    LET word == Substring(text, match.offset, match.offset + match.length)
        documentFrom == position.from + 1 + match.offset
        documentTo == position.from + 1 + match.offset + match.length
    IN  IF IsBlank(word) THEN None
        ELSE IF documentFrom < position.from \/ documentTo > position.to \/ documentFrom >= documentTo THEN None
        ELSE Some([word |-> word, from |-> documentFrom, to |-> documentTo,
                   category |-> categorizeLanguageToolError(word), ruleId |-> generateReadableRuleId(word)])

RECURSIVE Flatten(_)
Flatten(ss) == IF ss = <<>> THEN <<>> ELSE Head(ss) \o Flatten(Tail(ss))

\* callLanguageToolBackend(text, position) once checkGrammar has answered:
\* `ok` tells whether the service answered or the call threw (caught: []).
callLanguageToolBackend(text, position, ok) ==
    IF ~ok THEN <<>>
    ELSE LET matches == checkGrammar(text)
         IN  Flatten([k \in 1..Len(matches) |-> MatchToWord(text, position, matches[k])])

\* ------------------------------------------------------------ finding store
\* getCurrentParagraph(doc, cursorPos): the first analyzable block that holds
\* the cursor and has a non-blank text, or None.
IsAnalyzable(b) == b.type \in {"paragraph", "heading", "blockquote"}

HoldsCursor(d, i, cursorPos) == cursorPos >= NodePos(d, i) /\ cursorPos <= NodePos(d, i) + nodeSize(d[i])

getCurrentParagraph(d, cursorPos) ==
    LET found == {i \in 1..Len(d) : IsAnalyzable(d[i]) /\ HoldsCursor(d, i, cursorPos) /\ ~IsBlank(textContent(d[i]))}
    IN  IF found = {} THEN None
        ELSE LET i == CHOOSE j \in found : \A k \in found : j <= k
             IN  Some([text |-> textContent(d[i]), position |-> [from |-> NodePos(d, i), to |-> NodePos(d, i) + nodeSize(d[i])]])

\* the filter of processLanguageToolSuggestions: a word inside the paragraph
InParagraph(word, position) == word.from >= position.from /\ word.to <= position.to

\* processLanguageToolSuggestions(suggestions, paragraphPosition): the store after it
processLanguageToolSuggestions(words, suggestions, position) ==
    LET Keep(w) == ~InParagraph(w, position)
    IN  SelectSeq(words, Keep) \o suggestions

\* one word of updateCachedPositions: both ends mapped
MapWord(step, w) == [w EXCEPT !.from = MappingMap(step, w.from), !.to = MappingMap(step, w.to)]

\* updateCachedPositions(mapping): the misspelledWords after it
updateCachedPositions(words, step) ==
    LET Alive(w) == w.from # -1 /\ w.to # -1 /\ w.from < w.to
    IN  SelectSeq([k \in 1..Len(words) |-> MapWord(step, words[k])], Alive)

\* the filter of ignoreWord
SameWordIgnoringCase(a, b) == toLowerCase(a) = toLowerCase(b)

\* `${word}-${position.from}-${ruleId}-${index}`, the index 0-based
WordId(words, k) == [word |-> words[k].word, from |-> words[k].from, ruleId |-> words[k].ruleId, index |-> k - 1]

\* findWordIdByPosition without the comparison with position.to
findWordIdByPositionNoUpperBound(words, pos) ==
    LET hits == {k \in 1..Len(words) : pos >= words[k].from}
    IN  IF hits = {} THEN None ELSE Some(WordId(words, CHOOSE k \in hits : \A j \in hits : k <= j))

\* findWordIdByPosition(pos)
findWordIdByPosition(words, pos) ==
    LET hits == {k \in 1..Len(words) : pos >= words[k].from /\ pos <= words[k].to}
    IN  IF hits = {} THEN None ELSE Some(WordId(words, CHOOSE k \in hits : \A j \in hits : k <= j))

\* ------------------------------------------------------------- decorations
\* the position check without the upper bound
ValidRangeNoUpperBound(d, w) == ~(w.from < 0 \/ w.from >= w.to)

\* the position check of buildDecorations
ValidRange(d, w) == ~(w.from < 0 \/ w.to > ContentSize(d) \/ w.from >= w.to)

\* buildDecorations(doc): one inline decoration per word with a valid range
buildDecorations(d, words, focused, isEnabled) ==
    IF ~isEnabled \/ Len(words) = 0 THEN {}
    ELSE {[from |-> words[k].from, to |-> words[k].to, wordId |-> WordId(words, k), category |-> words[k].category,
           focused |-> (focused = Some(WordId(words, k)))] : k \in {j \in 1..Len(words) : ValidRange(d, words[j])}}

\* DecorationSet.map(mapping, doc): an inline decoration maps its start with
\* assoc 1 and its end with assoc -1 and is dropped when it becomes empty.
MapDecorations(decos, step) ==
    {[dd EXCEPT !.from = MapPos(step, dd.from, 1), !.to = MapPos(step, dd.to, -1)] :
        dd \in {x \in decos : MapPos(step, x.from, 1) < MapPos(step, x.to, -1)}}

\* -------------------------------------------------------------------- state
VARIABLES
    doc,                 \* view.state.doc: the sequence of blocks
    selection,           \* view.state.selection.from
    enabled,             \* options.enabled
    misspelledWords,     \* the finding store
    languageToolCache,   \* paragraph position -> [hash, suggestions, text, expired]
    ignoredWords,        \* the ignore set
    focusedWordId,       \* None or Some(word id)
    hasRunInitialCheck,
    debounceTimer,       \* None, or Some(the last arguments of debouncedLanguageToolCheck)
    initialCheckTimer,   \* None, or Some(the arguments the 100 ms timeout will pass)
    inflight,            \* the analyzer calls awaiting checkGrammar
    batches,             \* the runs of checkAllParagraphsOnLoad awaiting Promise.all
    decorations,         \* the plugin state: the DecorationSet
    spellChecker,        \* part_006: the retext processor is built (the dictionary is loaded)
    dictionaryLoading,   \* part_006: loadDictionary awaits the download of the dictionary
    loadTimer,           \* part_006: the 100 ms timeout of loadDictionary is pending
    aiSuggestions,       \* part_006: the findings of the AI pass
    paragraphCache,      \* part_006: paragraph position -> [hash, misspelledWords]
    aiCache,             \* part_006: paragraph position -> [hash, suggestions, expired]
    spellTimer,          \* part_006: None, or Some(the last arguments of debouncedSpellCheck)
    aiTimer,             \* part_006: None, or Some(the last arguments of debouncedAiGrammarCheck)
    aiInflight,          \* part_006: the calls awaiting checkGrammarWithAI
    categories,          \* options.categories: category -> enabled
    onUpdateCallback,    \* a host has registered its update callback (setUpdateCallback)
    pendingUpdates,      \* the 0 ms timeouts that will call onUpdateCallback, oldest first
    spellCheckData,      \* part_010: the last data handleSpellCheckUpdate received
    categoryStates,      \* part_010: the category switches of the panel
    uncaughtError,       \* an exception has escaped a public method
    documents,           \* document-store: the documents of the list
    loading,             \* document-store: the loading flag
    storeError,          \* document-store: error, None or Some(message)
    currentUserId,       \* document-store: None or Some(user id)
    storeCalls,          \* document-store: the server calls the store's actions await
    currentContent,      \* part_010: the title and content in the editor, as a version number
    lastSavedContent,    \* part_010: lastSavedTitleRef and lastSavedContentRef
    isSaving,            \* part_010: the isSaving state
    autoSaveTimeout,     \* part_010: the 2-second timeout is pending
    saves,               \* part_010: the autoSave calls awaiting updateDocument, oldest first
    persisted,           \* the title and content the server holds
    budget               \* number of events still to explore

vars == <<doc, selection, enabled, misspelledWords, languageToolCache, ignoredWords, focusedWordId,
          hasRunInitialCheck, debounceTimer, initialCheckTimer, inflight, batches, decorations,
          spellChecker, dictionaryLoading, loadTimer, aiSuggestions, paragraphCache, aiCache, spellTimer, aiTimer, aiInflight,
          categories, onUpdateCallback, pendingUpdates, spellCheckData, categoryStates, uncaughtError,
          documents, loading, storeError, currentUserId, storeCalls,
          currentContent, lastSavedContent, isSaving, autoSaveTimeout, saves, persisted, budget>>

EmptyCache == [k \in {} |-> None]

\* the state that only the retext and AI variant of the extension (part_006) has
retextVars == <<spellChecker, dictionaryLoading, loadTimer, aiSuggestions, paragraphCache, aiCache, spellTimer, aiTimer, aiInflight>>

\* the state that only the LanguageTool variant of the extension has
languageToolVars == <<languageToolCache, hasRunInitialCheck, debounceTimer, initialCheckTimer, inflight, batches>>

\* the state of the host of the panel (part_010) and of what the extension owes it
panelVars == <<categories, onUpdateCallback, pendingUpdates, spellCheckData, categoryStates, uncaughtError>>

\* the state of the document store (document-store.ts)
storeVars == <<documents, loading, storeError, currentUserId, storeCalls>>

\* the state of the auto-save of the document editor (part_010) and of the server
saveVars == <<currentContent, lastSavedContent, isSaving, autoSaveTimeout, saves, persisted>>

\* the state of the editor that both variants of the extension share
editorVars == <<doc, selection, enabled, misspelledWords, ignoredWords, focusedWordId, decorations>>

AllCategories == [correctness |-> TRUE, clarity |-> TRUE]

NoErrors == [correctness |-> <<>>, clarity |-> <<>>]

\* useState of spellCheckData in part_010
NoSpellCheckData == [isLoading |-> FALSE, error |-> None, misspelledWords |-> <<>>, categorizedErrors |-> NoErrors]

\* the extension with its default options and the host before any update
PanelConstructed ==
    /\ categories = AllCategories
    /\ spellCheckData = NoSpellCheckData
    /\ categoryStates = AllCategories
    /\ uncaughtError = FALSE

\* part_006 after construction: onCreate has started loadDictionary
RetextConstructed ==
    /\ spellChecker = FALSE
    /\ dictionaryLoading = TRUE
    /\ loadTimer = FALSE
    /\ aiSuggestions = <<>>
    /\ paragraphCache = EmptyCache
    /\ aiCache = EmptyCache
    /\ spellTimer = None
    /\ aiTimer = None
    /\ aiInflight = <<>>

\* create() of the document store
StoreCreated ==
    /\ documents = {}
    /\ loading = FALSE
    /\ storeError = None
    /\ currentUserId = None
    /\ storeCalls = <<>>

\* DocumentEditor after its first render: the refs hold the document as
\* loaded, which is what the server holds, and nothing is being saved
EditorMounted ==
    /\ currentContent = 0
    /\ lastSavedContent = 0
    /\ isSaving = FALSE
    /\ autoSaveTimeout = FALSE
    /\ saves = <<>>
    /\ persisted = 0

\* the state after the editor is mounted with document d, but for the
\* pending updates; hosted tells whether a host has registered its update callback
Constructed(d, n, hosted) ==
    /\ budget = n
    /\ onUpdateCallback = hosted
    /\ PanelConstructed
    /\ doc = d
    /\ selection = 1
    /\ enabled = TRUE
    /\ misspelledWords = <<>>
    /\ languageToolCache = EmptyCache
    /\ ignoredWords = {}
    /\ focusedWordId = None
    /\ hasRunInitialCheck = FALSE
    /\ debounceTimer = None
    /\ initialCheckTimer = None
    /\ inflight = <<>>
    /\ batches = <<>>
    /\ decorations = {}
    /\ RetextConstructed
    /\ StoreCreated
    /\ EditorMounted

\* the LanguageTool variant mounted: its construction sets no timeout
Mounted(d, n, hosted) == Constructed(d, n, hosted) /\ pendingUpdates = <<>>

\* the editor mounted with document d and no update callback registered
InitWith(d, n) == Mounted(d, n, FALSE)

\* one more event
Countdown == budget > 0 /\ budget' = budget - 1

\* an event of the spell-check extension or of its panel
Tick == Countdown /\ UNCHANGED storeVars /\ UNCHANGED saveVars

\* categorizeErrors(misspelledWords)
categorizeErrors(words) ==
    LET IsCorrectness(w) == w.category = "correctness"
        IsClarity(w) == w.category = "clarity"
    IN  [correctness |-> SelectSeq(words, IsCorrectness), clarity |-> SelectSeq(words, IsClarity)]

\* The end of processLanguageToolSuggestions: categorizedErrors is computed
\* from the store as it is now, and a 0 ms timeout is set whose callback
\* reads this.misspelledWords when it runs.  Without a registered callback
\* the timeout has no effect and is not recorded.
QueueUpdate(words) ==
    /\ pendingUpdates' = IF onUpdateCallback
                         THEN Append(pendingUpdates, [late |-> TRUE, isLoading |-> FALSE, error |-> None,
                                                      misspelledWords |-> <<>>, categorizedErrors |-> categorizeErrors(words)])
                         ELSE pendingUpdates
    /\ UNCHANGED <<categories, onUpdateCallback, spellCheckData, categoryStates, uncaughtError>>

\* ------------------------------------------------------------ plugin apply
\* state.apply of the plugin for one dispatched transaction.  words0 and
\* timer0 are misspelledWords and the debounce timer as the dispatching
\* handler left them, isEnabled is options.enabled at the dispatch.
\* handleCursorChange, when the focus changes, dispatches a transaction of
\* its own from inside apply: that nested apply runs on the old state, may
\* start the initial check, and its plugin state is replaced by the outer one.
PluginApply(newDoc, newSel, selectionSet, docChanged, step, meta, words0, isEnabled, timer0) ==
    LET selChanged == selectionSet /\ newSel # selection
        cursorId == findWordIdByPosition(words0, newSel)
        nested == selChanged /\ cursorId # focusedWordId
        nestedInit == nested /\ ~hasRunInitialCheck /\ ContentSize(doc) > 0
        outerInit == ~hasRunInitialCheck /\ ~nestedInit /\ ContentSize(newDoc) > 0
        focus1 == IF selChanged THEN cursorId ELSE focusedWordId
        words1 == IF docChanged THEN updateCachedPositions(words0, step) ELSE words0
        mapped == IF docChanged THEN MapDecorations(decorations, step) ELSE decorations
    IN  /\ doc' = newDoc
        /\ selection' = newSel
        /\ IF ~isEnabled
           THEN /\ decorations' = {}
                /\ misspelledWords' = words0
                /\ debounceTimer' = timer0
                /\ UNCHANGED <<focusedWordId, hasRunInitialCheck, initialCheckTimer>>
           ELSE /\ focusedWordId' = focus1
                /\ misspelledWords' = words1
                /\ debounceTimer' = IF docChanged THEN Some([doc |-> newDoc, cursorPos |-> newSel]) ELSE timer0
                /\ hasRunInitialCheck' = (hasRunInitialCheck \/ nestedInit \/ outerInit)
                /\ initialCheckTimer' = IF nestedInit THEN Some([doc |-> doc, cursorPos |-> selection])
                                        ELSE IF outerInit THEN Some([doc |-> newDoc, cursorPos |-> newSel])
                                        ELSE initialCheckTimer
                /\ decorations' = IF meta THEN buildDecorations(newDoc, words1, focus1, TRUE) ELSE mapped

NoStep == [from |-> 0, to |-> 0, size |-> 0]

\* a transaction that only carries the updateDecorations meta
DispatchUpdateDecorations(words0, isEnabled, timer0) ==
    PluginApply(doc, selection, FALSE, FALSE, NoStep, TRUE, words0, isEnabled, timer0)

\* ------------------------------------------------------------------ editing
\* the user types or pastes t at the cursor
TypeText(t) ==
    LET i == BlockOfCursor(doc, selection)
        o == selection - NodePos(doc, i) - 1
        newDoc == [doc EXCEPT ![i].text = InsertAt(doc[i].text, o, t)]
        step == [from |-> selection, to |-> selection, size |-> Len(t)]
    IN  /\ Tick
        /\ UNCHANGED retextVars
        /\ UNCHANGED panelVars
        /\ Len(doc[i].text) + Len(t) <= MaxLen
        /\ PluginApply(newDoc, selection + Len(t), TRUE, TRUE, step, FALSE, misspelledWords, enabled, debounceTimer)
        /\ UNCHANGED <<enabled, languageToolCache, ignoredWords, inflight, batches>>

\* the user deletes the n characters before the cursor
DeleteBackward(n) ==
    LET i == BlockOfCursor(doc, selection)
        o == selection - NodePos(doc, i) - 1
        newDoc == [doc EXCEPT ![i].text = DeleteAt(doc[i].text, o, n)]
        step == [from |-> selection - n, to |-> selection, size |-> 0]
    IN  /\ Tick
        /\ UNCHANGED retextVars
        /\ UNCHANGED panelVars
        /\ n <= o
        /\ PluginApply(newDoc, selection - n, TRUE, TRUE, step, FALSE, misspelledWords, enabled, debounceTimer)
        /\ UNCHANGED <<enabled, languageToolCache, ignoredWords, inflight, batches>>

\* the user moves the cursor
MoveCursor(p) ==
    /\ Tick
    /\ UNCHANGED retextVars
    /\ UNCHANGED panelVars
    /\ p # selection
    /\ PluginApply(doc, p, TRUE, FALSE, NoStep, FALSE, misspelledWords, enabled, debounceTimer)
    /\ UNCHANGED <<enabled, languageToolCache, ignoredWords, inflight, batches>>

\* ------------------------------------------------------------------- cache
CacheSet(cache, key, entry) == [k \in DOMAIN cache \cup {key} |-> IF k = key THEN entry ELSE cache[k]]

\* CacheHit with the age comparison inverted
CacheHitExpiredOnly(cache, key, textHash) == key \in DOMAIN cache /\ cache[key].hash = textHash /\ cache[key].expired

\* CacheHit without the hash comparison
CacheHitAnyHash(cache, key, textHash) == key \in DOMAIN cache /\ ~cache[key].expired

\* cached && cached.hash === textHash && Date.now() - cached.timestamp < cacheExpiry
CacheHit(cache, key, textHash) == key \in DOMAIN cache /\ cache[key].hash = textHash /\ ~cache[key].expired

\* the paragraph the pending debounced call will look at
PendingParagraph == getCurrentParagraph(debounceTimer[1].doc, debounceTimer[1].cursorPos)

\* ------------------------------------------------------- debounced analysis
\* The debounce delay has elapsed: debouncedLanguageToolCheck runs with the
\* arguments of the last call, up to its await.
TimerFire ==
    /\ Tick
    /\ UNCHANGED retextVars
    /\ debounceTimer # None
    /\ initialCheckTimer = None
    /\ LET para == PendingParagraph
       IN  IF ~enabled \/ para = None
           THEN /\ debounceTimer' = None
                /\ UNCHANGED panelVars
                /\ UNCHANGED <<doc, selection, enabled, misspelledWords, languageToolCache, ignoredWords,
                               focusedWordId, hasRunInitialCheck, initialCheckTimer, inflight, batches, decorations>>
           ELSE LET textHash == hashText(para[1].text)
                    key == para[1].position.from
                IN  IF CacheHit(languageToolCache, key, textHash)
                    THEN /\ Len(processLanguageToolSuggestions(misspelledWords, languageToolCache[key].suggestions, para[1].position)) <= MaxFindings
                         /\ DispatchUpdateDecorations(
                                processLanguageToolSuggestions(misspelledWords, languageToolCache[key].suggestions, para[1].position),
                                enabled, None)
                         /\ QueueUpdate(processLanguageToolSuggestions(misspelledWords, languageToolCache[key].suggestions, para[1].position))
                         /\ UNCHANGED <<enabled, languageToolCache, ignoredWords, inflight, batches>>
                    ELSE /\ Len(inflight) < MaxInFlight
                         /\ UNCHANGED panelVars
                         /\ inflight' = Append(inflight, [text |-> para[1].text, position |-> para[1].position, textHash |-> textHash])
                         /\ debounceTimer' = None
                         /\ UNCHANGED <<doc, selection, enabled, misspelledWords, languageToolCache, ignoredWords,
                                        focusedWordId, hasRunInitialCheck, initialCheckTimer, batches, decorations>>

\* the 100 ms timeout of the initial check calls the debounced function
InitialCheckTimeout ==
    /\ Tick
    /\ UNCHANGED retextVars
    /\ UNCHANGED panelVars
    /\ initialCheckTimer # None
    /\ debounceTimer' = initialCheckTimer
    /\ initialCheckTimer' = None
    /\ UNCHANGED <<doc, selection, enabled, misspelledWords, languageToolCache, ignoredWords,
                   focusedWordId, hasRunInitialCheck, inflight, batches, decorations>>

RemoveAt(s, k) == SubSeq(s, 1, k - 1) \o SubSeq(s, k + 1, Len(s))

\* checkGrammar settles for the k-th call in flight (ok: it answered; ~ok: it
\* threw): the rest of debouncedLanguageToolCheck runs.
Resolve(k, ok) ==
    LET call == inflight[k]
        suggestions == callLanguageToolBackend(call.text, call.position, ok)
        merged == processLanguageToolSuggestions(misspelledWords, suggestions, call.position)
    IN  /\ Tick
        /\ UNCHANGED retextVars
        /\ QueueUpdate(merged)
        /\ Len(merged) <= MaxFindings
        /\ inflight' = RemoveAt(inflight, k)
        /\ languageToolCache' = CacheSet(languageToolCache, call.position.from,
                                    [hash |-> call.textHash, suggestions |-> suggestions, text |-> call.text, expired |-> FALSE])
        /\ DispatchUpdateDecorations(merged, enabled, debounceTimer)
        /\ UNCHANGED <<enabled, ignoredWords, batches>>

\* five minutes have passed since a cache entry was written: a timer that
\* was pending when the entry was written has fired long before
ExpireCacheEntry(key) ==
    /\ Tick
    /\ UNCHANGED retextVars
    /\ UNCHANGED panelVars
    /\ debounceTimer = None
    /\ initialCheckTimer = None
    /\ ~languageToolCache[key].expired
    /\ languageToolCache' = [languageToolCache EXCEPT ![key].expired = TRUE]
    /\ UNCHANGED <<doc, selection, enabled, misspelledWords, ignoredWords, focusedWordId,
                   hasRunInitialCheck, debounceTimer, initialCheckTimer, inflight, batches, decorations>>

\* ---------------------------------------------------------- public methods
\* the words ignoreWord is called with: the word of a finding, in any case
IgnoreCandidates == {w \in UNION {[1..n -> Flagged] : n \in 1..MaxLen} :
                        \E k \in 1..Len(misspelledWords) : SameWordIgnoringCase(w, misspelledWords[k].word)}

\* ignoreFilter comparing the words as written
ignoreFilterCaseSensitive(words, word) ==
    LET Keep(mw) == mw.word # word
    IN  SelectSeq(words, Keep)

ignoreFilter(words, word) ==
    LET Keep(mw) == toLowerCase(mw.word) # toLowerCase(word)
    IN  SelectSeq(words, Keep)

ignoreWord(word) ==
    /\ Tick
    /\ UNCHANGED retextVars
    /\ UNCHANGED panelVars
    /\ ignoredWords' = ignoredWords \cup {toLowerCase(word)}
    /\ DispatchUpdateDecorations(ignoreFilter(misspelledWords, word), enabled, debounceTimer)
    /\ UNCHANGED <<enabled, languageToolCache, inflight, batches>>

toggleSpellCheck ==
    /\ Tick
    /\ UNCHANGED retextVars
    /\ spellCheckData' = IF enabled /\ onUpdateCallback THEN NoSpellCheckData ELSE spellCheckData
    /\ UNCHANGED <<categories, onUpdateCallback, pendingUpdates, categoryStates, uncaughtError>>
    /\ enabled' = ~enabled
    /\ DispatchUpdateDecorations(IF enabled THEN <<>> ELSE misspelledWords, ~enabled, debounceTimer)
    /\ UNCHANGED <<languageToolCache, ignoredWords, inflight, batches>>

\* ------------------------------------------------------------- initial load
\* the calls checkAllParagraphsOnLoad(doc) starts: doc.descendants visits
\* every node, and every analyzable node with a non-blank textContent gets
\* one call, in document order
RECURSIVE ParagraphCallsOfPrefix(_, _, _)
ParagraphCallsOfPrefix(d, n, start) ==
    IF n = 0 THEN <<>>
    ELSE ParagraphCallsOfPrefix(d, n - 1, start) \o
         (IF IsAnalyzable(d[n]) /\ ~IsBlank(textContent(d[n]))
          THEN <<[text |-> textContent(d[n]),
                  position |-> [from |-> start + NodePos(d, n), to |-> start + NodePos(d, n) + nodeSize(d[n])],
                  settled |-> FALSE, suggestions |-> <<>>]>>
          ELSE <<>>) \o
         (IF HasChildren(d[n])
          THEN ParagraphCallsOfPrefix(d[n].children, Len(d[n].children), start + NodePos(d, n) + 1)
          ELSE <<>>)

ParagraphCalls(d) == ParagraphCallsOfPrefix(d, Len(d), 0)

\* The public method triggerInitialSpellCheck, up to the await of
\* checkAllParagraphsOnLoad.  Nothing in the repository calls it: it is an
\* event of the specifications that model a host calling it.
triggerInitialSpellCheck ==
    /\ Tick
    /\ UNCHANGED retextVars
    /\ UNCHANGED panelVars
    /\ ContentSize(doc) > 0
    /\ Len(batches) < MaxBatches
    /\ hasRunInitialCheck' = TRUE
    /\ batches' = IF ParagraphCalls(doc) = <<>> THEN batches ELSE Append(batches, ParagraphCalls(doc))
    /\ UNCHANGED <<doc, selection, enabled, misspelledWords, languageToolCache, ignoredWords,
                   focusedWordId, debounceTimer, initialCheckTimer, inflight, decorations>>

AllSettled(calls) == \A j \in 1..Len(calls) : calls[j].settled

\* allParagraphSuggestions.flat()
FlattenedSuggestions(calls) == Flatten([j \in 1..Len(calls) |-> calls[j].suggestions])

\* checkGrammar settles for the i-th call of batch b.  Promise.all resolves
\* with the last call: only then does the rest of checkAllParagraphsOnLoad
\* run, and only a non-empty result replaces the store.
SettleBatchCall(b, i, ok) ==
    LET call == batches[b][i]
        suggestions == callLanguageToolBackend(call.text, call.position, ok)
        calls == [batches[b] EXCEPT ![i].settled = TRUE, ![i].suggestions = suggestions]
    IN  /\ Tick
        /\ UNCHANGED retextVars
        /\ ~call.settled
        /\ IF AllSettled(calls) /\ FlattenedSuggestions(calls) # <<>>
           THEN /\ Len(FlattenedSuggestions(calls)) <= MaxFindings
                /\ batches' = RemoveAt(batches, b)
                /\ DispatchUpdateDecorations(FlattenedSuggestions(calls), enabled, debounceTimer)
                /\ QueueUpdate(FlattenedSuggestions(calls))
                /\ UNCHANGED <<enabled, languageToolCache, ignoredWords, inflight>>
           ELSE /\ UNCHANGED panelVars
                /\ batches' = IF AllSettled(calls) THEN RemoveAt(batches, b) ELSE [batches EXCEPT ![b] = calls]
                /\ UNCHANGED <<doc, selection, enabled, misspelledWords, languageToolCache, ignoredWords,
                               focusedWordId, hasRunInitialCheck, debounceTimer, initialCheckTimer, inflight, decorations>>

\* ------------------------------------------------------------ specification
Next ==
    \/ \E t \in TextsUpTo(MaxIns) \ {<<>>} : TypeText(t)
    \/ \E n \in 1..MaxDel : DeleteBackward(n)
    \/ \E p \in CursorPositions(doc) : MoveCursor(p)
    \/ TimerFire
    \/ InitialCheckTimeout
    \/ \E k \in 1..Len(inflight), ok \in BOOLEAN : Resolve(k, ok)
    \/ \E key \in DOMAIN languageToolCache : ExpireCacheEntry(key)
    \/ \E w \in IgnoreCandidates : ignoreWord(w)
    \/ toggleSpellCheck

\* a document of one empty paragraph
Init == InitWith(<<Paragraph(<<>>)>>, MaxSteps)

Spec == Init /\ [][Next]_vars

\* a document of two empty paragraphs
InitTwoBlocks == InitWith(<<Paragraph(<<>>), Paragraph(<<>>)>>, MaxStepsTwoBlocks)

SpecTwoBlocks == InitTwoBlocks /\ [][Next]_vars

\* Two paragraphs, the first empty, the second "A" typed and analyzed: the
\* state SpecTwoBlocks is in after the cursor moved to the second paragraph,
\* "A" was typed, the initial-check timeout and the debounce ran and the
\* analyzer answered.
SecondBlockAnalyzed ==
    LET d == <<Paragraph(<<>>), Paragraph(<<"A">>)>>
        position == [from |-> NodePos(d, 2), to |-> NodePos(d, 2) + nodeSize(d[2])]
        words == callLanguageToolBackend(d[2].text, position, TRUE)
    IN  /\ doc = d
        /\ selection = 4
        /\ enabled = TRUE
        /\ misspelledWords = words
        /\ languageToolCache = CacheSet(EmptyCache, position.from,
                                    [hash |-> hashText(d[2].text), suggestions |-> words, text |-> d[2].text, expired |-> FALSE])
        /\ ignoredWords = {}
        /\ focusedWordId = None
        /\ hasRunInitialCheck = TRUE
        /\ debounceTimer = None
        /\ initialCheckTimer = None
        /\ inflight = <<>>
        /\ batches = <<>>
        /\ decorations = buildDecorations(d, words, None, TRUE)
        /\ RetextConstructed
        /\ StoreCreated
        /\ EditorMounted
        /\ onUpdateCallback = FALSE
        /\ pendingUpdates = <<>>
        /\ PanelConstructed

InitSecondBlockAnalyzed == SecondBlockAnalyzed /\ budget = MaxStepsAnalyzed

\* the events once the initial check has run
NextAfterInitialCheck ==
    \/ \E t \in TextsUpTo(MaxIns) \ {<<>>} : TypeText(t)
    \/ \E n \in 1..MaxDel : DeleteBackward(n)
    \/ \E p \in CursorPositions(doc) : MoveCursor(p)
    \/ TimerFire
    \/ \E k \in 1..Len(inflight), ok \in BOOLEAN : Resolve(k, ok)
    \/ \E key \in DOMAIN languageToolCache : ExpireCacheEntry(key)
    \/ \E w \in IgnoreCandidates : ignoreWord(w)
    \/ toggleSpellCheck

SpecSecondBlockAnalyzed == InitSecondBlockAnalyzed /\ [][NextAfterInitialCheck]_vars

\* a document mounted with content: two paragraphs that the analyzer flags
LoadedDoc == <<Paragraph(<<"A">>), Paragraph(<<"a">>)>>

InitLoaded == InitWith(LoadedDoc, MaxStepsLoaded)

\* the events of an editor whose host calls triggerInitialSpellCheck
NextLoaded ==
    \/ Next
    \/ triggerInitialSpellCheck
    \/ \E b \in 1..Len(batches) : \E i \in 1..Len(batches[b]), ok \in BOOLEAN : SettleBatchCall(b, i, ok)

SpecLoaded == InitLoaded /\ [][NextLoaded]_vars

\* ======================================================================
\* The retext and AI variant of the extension (src/unnamed/part_006): a
\* local retext pass over every paragraph and an AI grammar pass over the
\* paragraph of the cursor feed the same store.  A finding carries the
\* `source` of the pass that reported it.
\* ======================================================================
\* the letters the AI pass reports
AiFlagged == {"B"}

\* spellChecker.process(text).messages.  retext-spell reports every maximal
\* run of flagged letters; retext-contractions, which runs after it, reports
\* again the runs that start with the lower-case letter (a word such as
\* "dont" is reported by both plugins).  Columns are 1-based.
SpellMessages(text) ==
    [k \in 1..Len(MatchesFrom(text, 1)) |->
        [actual |-> Substring(text, MatchesFrom(text, 1)[k].offset, MatchesFrom(text, 1)[k].offset + MatchesFrom(text, 1)[k].length),
         column |-> MatchesFrom(text, 1)[k].offset + 1,
         source |-> "retext-spell"]]

ContractionMessages(text) ==
    LET StartsLowerCase(message) == message.actual[1] = "a"
    IN  SelectSeq([k \in 1..Len(SpellMessages(text)) |-> [SpellMessages(text)[k] EXCEPT !.source = "retext-contractions"]],
                  StartsLowerCase)

retextMessages(text) == SpellMessages(text) \o ContractionMessages(text)

\* categoryMappings[source].category
categoryOfSource(source) == "correctness"

\* the MisspelledWord performSpellCheck builds from one message of the
\* paragraph at pos, or None when the word is ignored or the position check fails
MessageToWord(d, pos, message, ignored) ==
    LET wordStart == pos + 1 + (message.column - 1)
        wordEnd == wordStart + Len(message.actual)
    IN  IF toLowerCase(message.actual) \in ignored THEN None
        ELSE IF wordStart >= 0 /\ wordEnd <= ContentSize(d) /\ wordStart < wordEnd
             THEN Some([word |-> message.actual, from |-> wordStart, to |-> wordEnd,
                        category |-> categoryOfSource(message.source), ruleId |-> message.source, source |-> "retext"])
             ELSE None

\* paragraphWords of one paragraph
ParagraphWords(d, pos, text, ignored) ==
    Flatten([k \in 1..Len(retextMessages(text)) |-> MessageToWord(d, pos, retextMessages(text)[k], ignored)])

\* `${pos}-${node.type.name}`
ParagraphKey(d, i) == <<NodePos(d, i), d[i].type>>

\* changedRanges.some(range => !(range.to <= pos || range.from >= nodeEnd))
IntersectsChange(ranges, pos, nodeEnd) ==
    \E r \in 1..Len(ranges) : ~(ranges[r].to <= pos \/ ranges[r].from >= nodeEnd)

\* block i is a paragraph performSpellCheck looks at
HasTextToCheck(d, i) == IsAnalyzable(d[i]) /\ ~IsBlank(d[i].text)

\* block i takes its words from the paragraph cache (changedRanges is <<>>
\* when the caller passed none)
UsesParagraphCache(d, i, ranges, cache) ==
    /\ ranges # <<>>
    /\ ~IntersectsChange(ranges, NodePos(d, i), NodePos(d, i) + nodeSize(d[i]))
    /\ ParagraphKey(d, i) \in DOMAIN cache
    /\ cache[ParagraphKey(d, i)].hash = hashText(d[i].text)

\* performSpellCheck(doc, changedRanges): the words it returns, the cached
\* ones first, and the paragraph cache after it.  The clean-up of a cache of
\* more than 100 entries is outside the documents of the model.
performSpellCheck(d, ranges, cache, ignored) ==
    LET fromCache == {i \in 1..Len(d) : HasTextToCheck(d, i) /\ UsesParagraphCache(d, i, ranges, cache)}
        toCheck == {i \in 1..Len(d) : HasTextToCheck(d, i) /\ ~UsesParagraphCache(d, i, ranges, cache)}
        checkedKeys == {ParagraphKey(d, i) : i \in toCheck}
        BlockOfKey(key) == CHOOSE i \in toCheck : ParagraphKey(d, i) = key
    IN  [words |-> Flatten([i \in 1..Len(d) |-> IF i \in fromCache THEN cache[ParagraphKey(d, i)].misspelledWords ELSE <<>>])
                   \o Flatten([i \in 1..Len(d) |-> IF i \in toCheck THEN ParagraphWords(d, NodePos(d, i), d[i].text, ignored) ELSE <<>>]),
         cache |-> [key \in DOMAIN cache \cup checkedKeys |->
                       IF key \in checkedKeys
                       THEN [hash |-> hashText(d[BlockOfKey(key)].text),
                             misspelledWords |-> ParagraphWords(d, NodePos(d, BlockOfKey(key)), d[BlockOfKey(key)].text, ignored)]
                       ELSE cache[key]]]

\* checkGrammarWithAI(text): the AI reports every maximal run of the letters
\* it flags; start is inclusive, end exclusive, both 0-based.
AiRunEnd(text, i) == CHOOSE e \in i..Len(text) : (\A k \in i..e : text[k] \in AiFlagged) /\ (e = Len(text) \/ text[e + 1] \notin AiFlagged)

RECURSIVE AiErrorsFrom(_, _)
AiErrorsFrom(text, i) ==
    IF i > Len(text) THEN <<>>
    ELSE IF text[i] \in AiFlagged
         THEN <<[start |-> i - 1, end |-> AiRunEnd(text, i), type |-> "grammar"]>> \o AiErrorsFrom(text, AiRunEnd(text, i) + 1)
         ELSE AiErrorsFrom(text, i + 1)

checkGrammarWithAI(text) == AiErrorsFrom(text, 1)

categorizeAiError(type) == "correctness"

\* the MisspelledWord callGptBackend builds from one error, or None
AiErrorToWord(text, position, error) ==
    LET documentFrom == position.from + 1 + error.start
        documentTo == position.from + 1 + error.end
    IN  IF IsBlank(Substring(text, error.start, error.end)) THEN None
        ELSE IF documentFrom < position.from \/ documentTo > position.to \/ documentFrom >= documentTo THEN None
        ELSE Some([word |-> Substring(text, error.start, error.end), from |-> documentFrom, to |-> documentTo,
                   category |-> categorizeAiError(error.type), ruleId |-> "ai-grammar", source |-> "ai"])

\* callGptBackend(text, position) once checkGrammarWithAI has settled
callGptBackend(text, position, ok) ==
    IF ~ok THEN <<>>
    ELSE Flatten([k \in 1..Len(checkGrammarWithAI(text)) |-> AiErrorToWord(text, position, checkGrammarWithAI(text)[k])])

\* w.position.from === word.position.from && w.position.to === word.position.to && w.word === word.word
SamePositionAndWord(a, b) == a.from = b.from /\ a.to = b.to /\ a.word = b.word

\* combined.filter((word, index, arr) => arr.findIndex(same) === index)
RECURSIVE UniquePrefix(_, _)
UniquePrefix(combined, n) ==
    IF n = 0 THEN <<>>
    ELSE UniquePrefix(combined, n - 1) \o
         (IF \E j \in 1..(n - 1) : SamePositionAndWord(combined[j], combined[n]) THEN <<>> ELSE <<combined[n]>>)

uniqueSuggestions(combined) == UniquePrefix(combined, Len(combined))

IsRetextWord(w) == w.source # "ai"

\* mergeAllSuggestions(): the retext words of the store, then the AI words
mergeAllSuggestions(words, ai) == uniqueSuggestions(SelectSeq(words, IsRetextWord) \o ai)

mergeRetextAndAiWords(retextWords, aiWords) == uniqueSuggestions(retextWords \o aiWords)

\* updateCachedPositions(mapping) of part_006: the paragraph cache after it.
\* An entry that had words and keeps none is dropped; the keys are not mapped.
MapParagraphCache(cache, step) ==
    [key \in {k \in DOMAIN cache : updateCachedPositions(cache[k].misspelledWords, step) # <<>> \/ cache[k].misspelledWords = <<>>} |->
        [cache[key] EXCEPT !.misspelledWords = updateCachedPositions(cache[key].misspelledWords, step)]]

\* state.apply of the plugin of part_006 for one dispatched transaction;
\* words0, ai0, cache0 and the timers are the fields as the dispatching
\* handler left them.
RetextApply(newDoc, newSel, selectionSet, docChanged, step, meta, words0, ai0, cache0, isEnabled, spellTimer0, aiTimer0) ==
    LET selChanged == selectionSet /\ newSel # selection
        focus1 == IF selChanged THEN findWordIdByPosition(words0, newSel) ELSE focusedWordId
        ai1 == IF docChanged THEN updateCachedPositions(ai0, step) ELSE ai0
        words1 == IF docChanged
                  THEN mergeRetextAndAiWords(updateCachedPositions(SelectSeq(words0, IsRetextWord), step), ai1)
                  ELSE words0
        mapped == IF docChanged THEN MapDecorations(decorations, step) ELSE decorations
    IN  /\ doc' = newDoc
        /\ selection' = newSel
        /\ IF ~isEnabled
           THEN /\ decorations' = {}
                /\ misspelledWords' = words0
                /\ aiSuggestions' = ai0
                /\ paragraphCache' = cache0
                /\ spellTimer' = spellTimer0
                /\ aiTimer' = aiTimer0
                /\ UNCHANGED focusedWordId
           ELSE /\ focusedWordId' = focus1
                /\ misspelledWords' = words1
                /\ aiSuggestions' = ai1
                /\ paragraphCache' = IF docChanged THEN MapParagraphCache(cache0, step) ELSE cache0
                /\ spellTimer' = IF docChanged
                                 THEN Some([doc |-> newDoc, changedRanges |-> <<[from |-> step.from, to |-> step.to]>>])
                                 ELSE spellTimer0
                /\ aiTimer' = IF docChanged THEN Some([doc |-> newDoc, cursorPos |-> newSel]) ELSE aiTimer0
                /\ decorations' = IF meta THEN buildDecorations(newDoc, words1, focus1, TRUE) ELSE mapped

\* a transaction that only carries the updateDecorations meta
RetextUpdateDecorations(words0, ai0, cache0, isEnabled, spellTimer0, aiTimer0) ==
    RetextApply(doc, selection, FALSE, FALSE, NoStep, TRUE, words0, ai0, cache0, isEnabled, spellTimer0, aiTimer0)

\* one more event of part_006
RetextTick == Tick /\ UNCHANGED languageToolVars

\* the data of one onUpdateCallback call of part_006: the values are those
\* the timeout has captured
UpdateData(isLoading, error, words) ==
    [late |-> FALSE, isLoading |-> isLoading, error |-> error, misspelledWords |-> words,
     categorizedErrors |-> categorizeErrors(words)]

\* setTimeout(() => this.onUpdateCallback?.(...), 0), once per item
QueueData(items) ==
    /\ pendingUpdates' = IF onUpdateCallback THEN pendingUpdates \o items ELSE pendingUpdates
    /\ UNCHANGED <<categories, onUpdateCallback, spellCheckData, categoryStates, uncaughtError>>

RetextTypeText(t) ==
    LET i == BlockOfCursor(doc, selection)
        o == selection - NodePos(doc, i) - 1
        newDoc == [doc EXCEPT ![i].text = InsertAt(doc[i].text, o, t)]
        step == [from |-> selection, to |-> selection, size |-> Len(t)]
    IN  /\ RetextTick
        /\ UNCHANGED panelVars
        /\ Len(doc[i].text) + Len(t) <= MaxLen
        /\ RetextApply(newDoc, selection + Len(t), TRUE, TRUE, step, FALSE,
                       misspelledWords, aiSuggestions, paragraphCache, enabled, spellTimer, aiTimer)
        /\ UNCHANGED <<enabled, ignoredWords, spellChecker, dictionaryLoading, loadTimer, aiCache, aiInflight>>

RetextDeleteBackward(n) ==
    LET i == BlockOfCursor(doc, selection)
        o == selection - NodePos(doc, i) - 1
        newDoc == [doc EXCEPT ![i].text = DeleteAt(doc[i].text, o, n)]
        step == [from |-> selection - n, to |-> selection, size |-> 0]
    IN  /\ RetextTick
        /\ UNCHANGED panelVars
        /\ n <= o
        /\ RetextApply(newDoc, selection - n, TRUE, TRUE, step, FALSE,
                       misspelledWords, aiSuggestions, paragraphCache, enabled, spellTimer, aiTimer)
        /\ UNCHANGED <<enabled, ignoredWords, spellChecker, dictionaryLoading, loadTimer, aiCache, aiInflight>>

RetextMoveCursor(p) ==
    /\ RetextTick
    /\ UNCHANGED panelVars
    /\ p # selection
    /\ RetextApply(doc, p, TRUE, FALSE, NoStep, FALSE,
                   misspelledWords, aiSuggestions, paragraphCache, enabled, spellTimer, aiTimer)
    /\ UNCHANGED <<enabled, ignoredWords, spellChecker, dictionaryLoading, loadTimer, aiCache, aiInflight>>

\* what loadDictionary reports when the download fails
LoadError == Some("Failed to load spell check dictionary")

\* The download of loadDictionary settles.  ok: the processor is built, an
\* update without error is queued and the 100 ms timeout of the initial check
\* is set.  ~ok: the catch block queues an update with the error message.
loadDictionary(ok) ==
    /\ RetextTick
    /\ dictionaryLoading
    /\ dictionaryLoading' = FALSE
    /\ spellChecker' = ok
    /\ loadTimer' = ok
    /\ QueueData(<<UpdateData(FALSE, IF ok THEN None ELSE LoadError, <<>>)>>)
    /\ UNCHANGED <<doc, selection, enabled, misspelledWords, ignoredWords, focusedWordId, decorations,
                   aiSuggestions, paragraphCache, aiCache, spellTimer, aiTimer, aiInflight>>

\* the 100 ms timeout of loadDictionary calls debouncedSpellCheck(view.state.doc)
LoadTimeout ==
    /\ RetextTick
    /\ UNCHANGED panelVars
    /\ loadTimer
    /\ loadTimer' = FALSE
    /\ spellTimer' = IF ContentSize(doc) > 0 THEN Some([doc |-> doc, changedRanges |-> <<>>]) ELSE spellTimer
    /\ UNCHANGED <<doc, selection, enabled, misspelledWords, ignoredWords, focusedWordId, decorations,
                   spellChecker, dictionaryLoading, aiSuggestions, paragraphCache, aiCache, aiTimer, aiInflight>>

\* The delay of debouncedSpellCheck (500 ms) has elapsed.  apply arms it
\* together with debouncedAiGrammarCheck (300 ms), which therefore fires
\* first.  The retext processor runs without waiting for anything outside
\* the page: the pass is one step.
debouncedSpellCheck ==
    /\ RetextTick
    /\ spellTimer # None
    /\ aiTimer = None
    /\ IF ~spellChecker \/ ~enabled
       THEN /\ spellTimer' = None
            /\ UNCHANGED panelVars
            /\ UNCHANGED <<doc, selection, enabled, misspelledWords, ignoredWords, focusedWordId, decorations,
                           spellChecker, dictionaryLoading, loadTimer, aiSuggestions, paragraphCache, aiCache, aiTimer, aiInflight>>
       ELSE LET result == performSpellCheck(spellTimer[1].doc, spellTimer[1].changedRanges, paragraphCache, ignoredWords)
            IN  /\ Len(result.words) <= MaxFindings
                /\ QueueData(<<UpdateData(TRUE, None, <<>>), UpdateData(FALSE, None, result.words)>>)
                /\ RetextUpdateDecorations(result.words, aiSuggestions, result.cache, enabled, None, aiTimer)
                /\ UNCHANGED <<enabled, ignoredWords, spellChecker, dictionaryLoading, loadTimer, aiCache, aiInflight>>

\* processAiSuggestions(aiSuggestions): the store after it
processAiSuggestions(words, suggestions) == mergeAllSuggestions(words, suggestions)

\* the paragraph the pending AI call will look at
PendingAiParagraph == getCurrentParagraph(aiTimer[1].doc, aiTimer[1].cursorPos)

\* the delay of debouncedAiGrammarCheck has elapsed: it runs up to its await
debouncedAiGrammarCheck ==
    /\ RetextTick
    /\ aiTimer # None
    /\ LET para == PendingAiParagraph
       IN  IF ~enabled \/ para = None
           THEN /\ aiTimer' = None
                /\ UNCHANGED panelVars
                /\ UNCHANGED <<doc, selection, enabled, misspelledWords, ignoredWords, focusedWordId, decorations,
                               spellChecker, dictionaryLoading, loadTimer, aiSuggestions, paragraphCache, aiCache, spellTimer, aiInflight>>
           ELSE IF CacheHit(aiCache, para[1].position.from, hashText(para[1].text))
                THEN /\ Len(processAiSuggestions(misspelledWords, aiCache[para[1].position.from].suggestions)) <= MaxFindings
                     /\ QueueData(<<UpdateData(FALSE, None, processAiSuggestions(misspelledWords, aiCache[para[1].position.from].suggestions))>>)
                     /\ RetextUpdateDecorations(
                            processAiSuggestions(misspelledWords, aiCache[para[1].position.from].suggestions),
                            aiCache[para[1].position.from].suggestions, paragraphCache, enabled, spellTimer, None)
                     /\ UNCHANGED <<enabled, ignoredWords, spellChecker, dictionaryLoading, loadTimer, aiCache, aiInflight>>
                ELSE /\ Len(aiInflight) < MaxInFlight
                     /\ UNCHANGED panelVars
                     /\ aiInflight' = Append(aiInflight, [text |-> para[1].text, position |-> para[1].position,
                                                         textHash |-> hashText(para[1].text)])
                     /\ aiTimer' = None
                     /\ UNCHANGED <<doc, selection, enabled, misspelledWords, ignoredWords, focusedWordId, decorations,
                                    spellChecker, dictionaryLoading, loadTimer, aiSuggestions, paragraphCache, aiCache, spellTimer>>

\* checkGrammarWithAI settles for the k-th call in flight: the rest of
\* debouncedAiGrammarCheck runs
AiResolve(k, ok) ==
    LET call == aiInflight[k]
        suggestions == callGptBackend(call.text, call.position, ok)
    IN  /\ RetextTick
        /\ QueueData(<<UpdateData(FALSE, None, processAiSuggestions(misspelledWords, suggestions))>>)
        /\ Len(processAiSuggestions(misspelledWords, suggestions)) <= MaxFindings
        /\ aiInflight' = RemoveAt(aiInflight, k)
        /\ aiCache' = CacheSet(aiCache, call.position.from,
                          [hash |-> call.textHash, suggestions |-> suggestions, expired |-> FALSE])
        /\ RetextUpdateDecorations(processAiSuggestions(misspelledWords, suggestions), suggestions,
                                   paragraphCache, enabled, spellTimer, aiTimer)
        /\ UNCHANGED <<enabled, ignoredWords, spellChecker, dictionaryLoading, loadTimer>>

\* five minutes have passed since an entry of the AI cache was written
ExpireAiCacheEntry(key) ==
    /\ RetextTick
    /\ UNCHANGED panelVars
    /\ spellTimer = None
    /\ aiTimer = None
    /\ ~aiCache[key].expired
    /\ aiCache' = [aiCache EXCEPT ![key].expired = TRUE]
    /\ UNCHANGED <<doc, selection, enabled, misspelledWords, ignoredWords, focusedWordId, decorations,
                   spellChecker, dictionaryLoading, loadTimer, aiSuggestions, paragraphCache, spellTimer, aiTimer, aiInflight>>

\* the words ignoreWord of part_006 is called with: the word of a finding
RetextIgnoreCandidates == {misspelledWords[k].word : k \in 1..Len(misspelledWords)}

RetextIgnoreWord(word) ==
    /\ RetextTick
    /\ UNCHANGED panelVars
    /\ ignoredWords' = ignoredWords \cup {toLowerCase(word)}
    /\ RetextUpdateDecorations(ignoreFilter(misspelledWords, word), aiSuggestions, paragraphCache, enabled, spellTimer, aiTimer)
    /\ UNCHANGED <<enabled, spellChecker, dictionaryLoading, loadTimer, aiCache, aiInflight>>

RetextToggleSpellCheck ==
    /\ RetextTick
    /\ spellCheckData' = IF enabled /\ onUpdateCallback THEN NoSpellCheckData ELSE spellCheckData
    /\ UNCHANGED <<categories, onUpdateCallback, pendingUpdates, categoryStates, uncaughtError>>
    /\ enabled' = ~enabled
    /\ RetextUpdateDecorations(IF enabled THEN <<>> ELSE misspelledWords, aiSuggestions, paragraphCache,
                               ~enabled, spellTimer, aiTimer)
    /\ UNCHANGED <<ignoredWords, spellChecker, dictionaryLoading, loadTimer, aiCache, aiInflight>>

NextRetext ==
    \/ \E t \in TextsUpTo(MaxIns) \ {<<>>} : RetextTypeText(t)
    \/ \E n \in 1..MaxDel : RetextDeleteBackward(n)
    \/ \E p \in CursorPositions(doc) : RetextMoveCursor(p)
    \/ \E ok \in BOOLEAN : loadDictionary(ok)
    \/ LoadTimeout
    \/ debouncedSpellCheck
    \/ debouncedAiGrammarCheck
    \/ \E k \in 1..Len(aiInflight), ok \in BOOLEAN : AiResolve(k, ok)
    \/ \E key \in DOMAIN aiCache : ExpireAiCacheEntry(key)
    \/ \E w \in RetextIgnoreCandidates : RetextIgnoreWord(w)
    \/ RetextToggleSpellCheck

\* part_006 mounted on a document of one empty paragraph
InitRetext == InitWith(<<Paragraph(<<>>)>>, MaxStepsRetext)

SpecRetext == InitRetext /\ [][NextRetext]_vars

\* =================================================================== claims
\* the live block that starts at a position, if any
LiveBlockAt(from) == {i \in 1..Len(doc) : NodePos(doc, i) = from}

\* an analyzer call whose block no longer holds the text that was sent
IsStale(call) == \A i \in LiveBlockAt(call.position.from) : hashText(doc[i].text) # call.textHash

\* C1: a result that arrives for a block edited since the dispatch is
\* discarded: it changes neither the finding store nor the cache.
C1_StaleResultDiscarded ==
    [][\A k \in 1..Len(inflight), ok \in BOOLEAN :
          (Resolve(k, ok) /\ IsStale(inflight[k])) =>
              (misspelledWords' = misspelledWords /\ languageToolCache' = languageToolCache)]_vars

\* C3: the live document's text at the range of every finding of the store
\* is the finding's text.
C3_FindingsMatchLiveText ==
    \A k \in 1..Len(misspelledWords) :
        /\ ValidRange(doc, misspelledWords[k])
        /\ Slice(doc, misspelledWords[k].from, misspelledWords[k].to) = misspelledWords[k].word

\* C4: no finding of the store has a text that is in the ignore set,
\* compared case-insensitively.
C4_IgnoredNeverReturns ==
    \A k \in 1..Len(misspelledWords) : toLowerCase(misspelledWords[k].word) \notin ignoredWords

\* C2: every inline decoration of the plugin state has a range with
\* 0 <= from < to <= the size of the current document.
C2_DecorationRangesValid ==
    \A dd \in decorations : 0 <= dd.from /\ dd.from < dd.to /\ dd.to <= ContentSize(doc)

\* the store holds a finding that ends beyond the document, and the
\* decorations are the ones buildDecorations makes of that store
C2_Witness ==
    /\ enabled
    /\ \E k \in 1..Len(misspelledWords) : misspelledWords[k].to > ContentSize(doc)
    /\ decorations = buildDecorations(doc, misspelledWords, focusedWordId, TRUE)

\* C5: ignoreWord(w) puts the lowercase of w in the ignore set and leaves no
\* finding in the store whose text equals w case-insensitively.
C5_IgnoreRemovesAllCases ==
    [][\A w \in IgnoreCandidates :
          ignoreWord(w) =>
              /\ toLowerCase(w) \in ignoredWords'
              /\ \A k \in 1..Len(misspelledWords') :
                     toLowerCase(misspelledWords'[k].word) # toLowerCase(w)]_vars

\* a word was ignored in a case other than the one the analyzer reported at a
\* range where the document still holds it, and the store has no such finding
C5_Witness ==
    \E w \in ignoredWords :
        /\ \A k \in 1..Len(misspelledWords) : toLowerCase(misspelledWords[k].word) # w
        /\ \E key \in DOMAIN languageToolCache :
               \E j \in 1..Len(languageToolCache[key].suggestions) :
                   LET s == languageToolCache[key].suggestions[j]
                   IN  /\ toLowerCase(s.word) = w
                       /\ s.word # w
                       /\ ValidRange(doc, s)
                       /\ Slice(doc, s.from, s.to) = s.word

\* the paragraph under the cursor of the live document
LiveParagraph == getCurrentParagraph(doc, selection)

\* C6: when the debounce timer fires after a burst of edits, the block under
\* the cursor is analyzed once with the text it has at that moment: the text
\* looked at is the live text and, unless the cache answers, exactly one call
\* carrying that text is dispatched.
C6_BurstDispatchesFinalText ==
    [][(TimerFire /\ enabled /\ LiveParagraph # None) =>
          /\ PendingParagraph = LiveParagraph
          /\ \/ CacheHit(languageToolCache, LiveParagraph[1].position.from, hashText(LiveParagraph[1].text))
             \/ /\ Len(inflight') = Len(inflight) + 1
                /\ inflight'[Len(inflight')].text = LiveParagraph[1].text]_vars

\* a block with text the cache has no entry for
IsDirty(i) ==
    /\ ~IsBlank(doc[i].text)
    /\ ~(NodePos(doc, i) \in DOMAIN languageToolCache
            /\ languageToolCache[NodePos(doc, i)].hash = hashText(doc[i].text))

\* C7: when the debounce timer set by the last edit fires, every block with
\* changed text is with the analyzer, wherever the cursor is.
C7_EveryDirtyBlockDispatched ==
    [][(TimerFire /\ enabled /\ debounceTimer[1].doc = doc) =>
          \A i \in 1..Len(doc) :
              IsDirty(i) => \E k \in 1..Len(inflight') :
                                /\ inflight'[k].position.from = NodePos(doc, i)
                                /\ inflight'[k].text = doc[i].text]_vars

\* the cache entry of the pending paragraph carries the hash of its text
PendingHashCached ==
    /\ PendingParagraph # None
    /\ PendingParagraph[1].position.from \in DOMAIN languageToolCache
    /\ languageToolCache[PendingParagraph[1].position.from].hash = hashText(PendingParagraph[1].text)

PendingEntry == languageToolCache[PendingParagraph[1].position.from]

C10_InsertBeforeShiftsFinding ==
    [][\A t \in TextsUpTo(MaxIns) \ {<<>>} :
          TypeText(t) =>
              \A k \in 1..Len(misspelledWords) :
                  LET w == misspelledWords[k]
                  IN  (/\ selection <= w.from
                       /\ ValidRange(doc, w)
                       /\ Slice(doc, w.from, w.to) = w.word) =>
                          /\ k <= Len(misspelledWords')
                          /\ misspelledWords'[k] = [w EXCEPT !.from = w.from + Len(t), !.to = w.to + Len(t)]
                          /\ Slice(doc', w.from + Len(t), w.to + Len(t)) = w.word]_vars

\* the step of DeleteBackward(n)
DeletionStep(n) == [from |-> selection - n, to |-> selection, size |-> 0]

\* every finding of the next store is the re-projection of a finding of the
\* store other than the k-th
DroppedByEdit(k, step) ==
    /\ Len(misspelledWords') < Len(misspelledWords)
    /\ \A j \in 1..Len(misspelledWords') :
           \E i \in (1..Len(misspelledWords)) \ {k} : misspelledWords'[j] = MapWord(step, misspelledWords[i])

\* C11: deleting exactly the span of a finding removes the finding from the
\* store, and what stays in the store is the re-projection of the others.
C11_ExactDeletionDropsFinding ==
    [][\A n \in 1..MaxDel :
          DeleteBackward(n) =>
              \A k \in 1..Len(misspelledWords) :
                  (misspelledWords[k].from = selection - n /\ misspelledWords[k].to = selection) =>
                      DroppedByEdit(k, DeletionStep(n))]_vars

\* an end of the range of w is in the text that the step deletes
EndpointDeleted(w, step) ==
    \/ step.from <= w.from /\ w.from < step.to
    \/ step.from < w.to /\ w.to <= step.to

\* C12: a deletion that takes the text at either end of a finding drops the
\* finding, also when it takes only a part of the finding.
C12_PartialDeletionDropsFinding ==
    [][\A n \in 1..MaxDel :
          DeleteBackward(n) =>
              \A k \in 1..Len(misspelledWords) :
                  (ValidRange(doc, misspelledWords[k]) /\ EndpointDeleted(misspelledWords[k], DeletionStep(n))) =>
                      DroppedByEdit(k, DeletionStep(n))]_vars

\* the store and the findings of every cache entry are re-projected
Reprojected(step) ==
    /\ misspelledWords' = updateCachedPositions(misspelledWords, step)
    /\ \A key \in DOMAIN languageToolCache :
           languageToolCache'[key].suggestions = updateCachedPositions(languageToolCache[key].suggestions, step)

\* C15: an edit re-projects every finding of the store and every finding of
\* every cache entry through its mapping, in the step that arms the debounce.
C15_EditReprojectsStoreAndCache ==
    [][/\ \A t \in TextsUpTo(MaxIns) \ {<<>>} :
              TypeText(t) => Reprojected([from |-> selection, to |-> selection, size |-> Len(t)])
       /\ \A n \in 1..MaxDel : DeleteBackward(n) => Reprojected(DeletionStep(n))]_vars

\* C16: while analysis is disabled the finding store is empty.
C16_DisabledStoreEmpty == ~enabled => misspelledWords = <<>>

\* the k-th finding of the store lies inside a live block other than block i
InOtherBlock(k, i) ==
    \E b \in (1..Len(doc)) \ {i} :
        /\ misspelledWords[k].from > NodePos(doc, b)
        /\ misspelledWords[k].to < NodePos(doc, b) + nodeSize(doc[b])

\* the findings of the blocks other than the one the call was made for stay
OtherBlocksKept(call) ==
    \A i \in LiveBlockAt(call.position.from) :
        \A k \in 1..Len(misspelledWords) :
            InOtherBlock(k, i) => \E j \in 1..Len(misspelledWords') : misspelledWords'[j] = misspelledWords[k]

\* C13: the merge of a successful result for a block leaves every finding
\* of every other block in the store, unchanged.
C13_MergeKeepsOtherBlocks ==
    [][\A k \in 1..Len(inflight) : Resolve(k, TRUE) => OtherBlocksKept(inflight[k])]_vars

\* C19: a call that fails leaves the findings of the other blocks in the
\* store and the cache entries of the other blocks as they are.
C19_FailureKeepsOtherBlocks ==
    [][\A k \in 1..Len(inflight) :
          Resolve(k, FALSE) =>
              /\ OtherBlocksKept(inflight[k])
              /\ \A key \in DOMAIN languageToolCache \ {inflight[k].position.from} :
                     languageToolCache'[key] = languageToolCache[key]]_vars

\* the analyzer calls awaiting an answer for block i of document d with its text
CallsInFlightFor(d, calls, bs, i) ==
    LET Awaited(c) == c.position.from = NodePos(d, i) /\ c.text = d[i].text
        debounced == {<<0, k>> : k \in {j \in 1..Len(calls) : Awaited(calls[j])}}
        batched == UNION {{<<b, j>> : j \in {n \in 1..Len(bs[b]) : ~bs[b][n].settled /\ Awaited(bs[b][n])}} :
                             b \in 1..Len(bs)}
    IN  debounced \cup batched

\* C17: the step that starts the initial check of a document dispatches,
\* in that step and not after a delay, exactly one analyzer call for every
\* analyzable block with text.
C17_InitialCheckDispatchesEveryBlock ==
    [][(~hasRunInitialCheck /\ hasRunInitialCheck') =>
          \A i \in 1..Len(doc') :
              (IsAnalyzable(doc'[i]) /\ ~IsBlank(doc'[i].text)) =>
                  Cardinality(CallsInFlightFor(doc', inflight', batches', i)) = 1]_vars

\* C20: an analyzer call that answers has its findings in the store as soon
\* as it answers, whatever the other calls do: it does not wait for the calls
\* of other blocks.
C20_SettledCallMergedAtOnce ==
    [][/\ \A k \in 1..Len(inflight) :
             Resolve(k, TRUE) =>
                 \A w \in {callLanguageToolBackend(inflight[k].text, inflight[k].position, TRUE)[n] :
                               n \in 1..Len(callLanguageToolBackend(inflight[k].text, inflight[k].position, TRUE))} :
                     \E m \in 1..Len(misspelledWords') : misspelledWords'[m] = w
       /\ \A b \in 1..Len(batches) : \A i \in 1..Len(batches[b]) :
             SettleBatchCall(b, i, TRUE) =>
                 \A w \in {callLanguageToolBackend(batches[b][i].text, batches[b][i].position, TRUE)[n] :
                               n \in 1..Len(callLanguageToolBackend(batches[b][i].text, batches[b][i].position, TRUE))} :
                     \E m \in 1..Len(misspelledWords') : misspelledWords'[m] = w]_vars

\* two findings with identical (range.from, range.to, text)
Duplicates(a, b) == a.from = b.from /\ a.to = b.to /\ a.word = b.word

\* C18: the store never contains two findings with identical
\* (range.from, range.to, text).
C18_StoreHasNoDuplicates ==
    \A m, n \in 1..Len(misspelledWords) : m # n => ~Duplicates(misspelledWords[m], misspelledWords[n])

\* the findings the AI pass reports for the live text of a block
LiveAiFindings ==
    UNION {{callGptBackend(doc[i].text, [from |-> NodePos(doc, i), to |-> NodePos(doc, i) + nodeSize(doc[i])], TRUE)[n] :
               n \in 1..Len(callGptBackend(doc[i].text, [from |-> NodePos(doc, i), to |-> NodePos(doc, i) + nodeSize(doc[i])], TRUE))} :
           i \in 1..Len(doc)}

\* the findings the retext pass reports for the live text of a block
LiveRetextFindings ==
    UNION {{ParagraphWords(doc, NodePos(doc, i), doc[i].text, ignoredWords)[n] :
               n \in 1..Len(ParagraphWords(doc, NodePos(doc, i), doc[i].text, ignoredWords))} :
           i \in 1..Len(doc)}

\* the store holds the finding, or the duplicate of it that deduplication kept
InStore(w, words) == \E m \in 1..Len(words) : SamePositionAndWord(words[m], w) /\ words[m].source = w.source

\* C14: the completion of one adapter keeps the other adapter's findings:
\* when the retext pass completes while spell checking is on, the findings
\* of the AI pass for the live text that are in the store stay in the store;
\* when the AI pass completes, the findings of the retext pass for the live
\* text that are in the store stay in the store.
C14_CompletionKeepsOtherAdapter ==
    [][/\ (debouncedSpellCheck /\ enabled) =>
              \A w \in LiveAiFindings : InStore(w, misspelledWords) => InStore(w, misspelledWords')
       /\ \A k \in 1..Len(aiInflight) :
              (AiResolve(k, TRUE) /\ enabled) =>
                  \A w \in LiveRetextFindings : InStore(w, misspelledWords) => InStore(w, misspelledWords')]_vars

\* the findings that a step brings into the store
Entering == {misspelledWords'[m] : m \in 1..Len(misspelledWords')} \ {misspelledWords[n] : n \in 1..Len(misspelledWords)}

\* C21: a finding that enters the store by a merge has a text that is not
\* blank and a range with 0 <= from < to <= the size of the current document.
C21_EnteringFindingsValid ==
    [][doc' = doc => \A w \in Entering : ~IsBlank(w.word) /\ ValidRange(doc', w)]_vars

\* C26: when the debounce timer fires, a call it dispatches carries the text
\* that the block at the call's position has in the current document.
C26_FireReadsCurrentDocument ==
    [][(TimerFire /\ enabled) =>
          \A k \in (Len(inflight) + 1)..Len(inflight') :
              \E i \in LiveBlockAt(inflight'[k].position.from) : doc[i].text = inflight'[k].text]_vars

\* ----------------------------------------------------------- panel and host
MaxStepsPanel == 8

\* the elements of a sequence
Elements(seq) == {seq[k] : k \in 1..Len(seq)}

\* the findings the panel holds: what the last update delivered
PanelWords ==
    Elements(spellCheckData.misspelledWords) \cup Elements(spellCheckData.categorizedErrors.correctness)
        \cup Elements(spellCheckData.categorizedErrors.clarity)

\* A 0 ms timeout of processLanguageToolSuggestions runs: the callback reads
\* this.misspelledWords now, and handleSpellCheckUpdate stores the data.
DeliverUpdate ==
    /\ Tick
    /\ pendingUpdates # <<>>
    /\ spellCheckData' = [isLoading |-> Head(pendingUpdates).isLoading,
                          error |-> Head(pendingUpdates).error,
                          misspelledWords |-> IF Head(pendingUpdates).late THEN misspelledWords
                                              ELSE Head(pendingUpdates).misspelledWords,
                          categorizedErrors |-> Head(pendingUpdates).categorizedErrors]
    /\ pendingUpdates' = Tail(pendingUpdates)
    /\ UNCHANGED <<categories, onUpdateCallback, categoryStates, uncaughtError>>
    /\ UNCHANGED <<doc, selection, enabled, misspelledWords, ignoredWords, focusedWordId, decorations>>
    /\ UNCHANGED languageToolVars
    /\ UNCHANGED retextVars

\* the block whose text holds the range [from, to), if any
BlocksHolding(d, from, to) == {i \in 1..Len(d) : from >= NodePos(d, i) + 1 /\ to <= NodePos(d, i) + 1 + Len(d[i].text)}

\* replaceWord(from, to, replacement) for a range inside the text of one
\* block: the transaction replaces the range and keeps the mapped selection.
replaceWord(from, to, replacement) ==
    LET i == CHOOSE j \in BlocksHolding(doc, from, to) : TRUE
        o == from - NodePos(doc, i) - 1
        newText == SubSeq(doc[i].text, 1, o) \o replacement \o SubSeq(doc[i].text, o + (to - from) + 1, Len(doc[i].text))
        newDoc == [doc EXCEPT ![i].text = newText]
        step == [from |-> from, to |-> to, size |-> Len(replacement)]
    IN  /\ Tick
        /\ UNCHANGED retextVars
        /\ UNCHANGED panelVars
        /\ from < to
        /\ BlocksHolding(doc, from, to) # {}
        /\ Len(newText) <= MaxLen
        /\ PluginApply(newDoc, MappingMap(step, selection), FALSE, TRUE, step, FALSE, misspelledWords, enabled, debounceTimer)
        /\ UNCHANGED <<enabled, languageToolCache, ignoredWords, inflight, batches>>

\* focusWord(from, to).  TextSelection.create resolves both positions and
\* throws a RangeError for a position outside the document; nothing catches
\* it.  Otherwise the selection is dispatched and apply calls
\* handleCursorChange(from); the call of handleCursorChange that follows the
\* dispatch finds the focus already set, except while the extension is
\* disabled, when apply returned early.  The selection is taken to differ
\* from the old one, which is certain when its start differs.
focusWord(from, to) ==
    /\ Tick
    /\ UNCHANGED retextVars
    /\ IF from > ContentSize(doc) \/ to > ContentSize(doc)
       THEN /\ uncaughtError' = TRUE
            /\ UNCHANGED <<categories, onUpdateCallback, pendingUpdates, spellCheckData, categoryStates>>
            /\ UNCHANGED <<doc, selection, enabled, misspelledWords, ignoredWords, focusedWordId, decorations>>
            /\ UNCHANGED languageToolVars
       ELSE /\ from # selection
            /\ UNCHANGED panelVars
            /\ IF enabled
               THEN /\ PluginApply(doc, from, TRUE, FALSE, NoStep, FALSE, misspelledWords, enabled, debounceTimer)
                    /\ UNCHANGED <<enabled, languageToolCache, ignoredWords, inflight, batches>>
               ELSE /\ selection' = from
                    /\ focusedWordId' = findWordIdByPosition(misspelledWords, from)
                    /\ decorations' = {}
                    /\ UNCHANGED <<doc, enabled, misspelledWords, ignoredWords>>
                    /\ UNCHANGED languageToolVars

\* toggleCategory(category): the option is flipped and the debounced analysis
\* is called with the current document; no transaction is dispatched.
toggleCategory(category) ==
    /\ categories' = [categories EXCEPT ![category] = ~categories[category]]
    /\ debounceTimer' = Some([doc |-> doc, cursorPos |-> selection])
    /\ UNCHANGED <<doc, selection, enabled, misspelledWords, languageToolCache, ignoredWords, focusedWordId,
                   hasRunInitialCheck, initialCheckTimer, inflight, batches, decorations>>

\* handleToggleCategory of the host: its switch and the extension's option
handleToggleCategory(category) ==
    /\ Tick
    /\ UNCHANGED retextVars
    /\ categoryStates' = [categoryStates EXCEPT ![category] = ~categoryStates[category]]
    /\ toggleCategory(category)
    /\ UNCHANGED <<onUpdateCallback, pendingUpdates, spellCheckData, uncaughtError>>

\* no debounce, analyzer call or update is pending
AnalysisSettled == debounceTimer = None /\ initialCheckTimer = None /\ inflight = <<>> /\ pendingUpdates = <<>>

\* the texts the panel offers as a replacement of the finding w
Replacements(w) == TextsUpTo(MaxIns) \ {<<>>, w.word}

NextPanel ==
    \/ Next
    \/ DeliverUpdate
    \/ \E w \in PanelWords : focusWord(w.from, w.to)
    \/ \E w \in PanelWords : \E r \in Replacements(w) : replaceWord(w.from, w.to, r)
    \/ \E w \in PanelWords : ignoreWord(w.word)
    \/ \E c \in {"correctness", "clarity"} : handleToggleCategory(c)

\* a document of one empty paragraph in a host that has registered its callback
InitPanel == Mounted(<<Paragraph(<<>>)>>, MaxStepsPanel, TRUE)

SpecPanel == InitPanel /\ [][NextPanel]_vars

\* ---------------------------------------------------- part_006 with a host
MaxStepsRetextPanel == 7

NextRetextPanel ==
    \/ NextRetext
    \/ DeliverUpdate

\* part_006 mounted in a host that has registered its callback: onCreate has
\* called loadDictionary, whose first timeout reports that it is loading
InitRetextPanel ==
    /\ Constructed(<<Paragraph(<<>>)>>, MaxStepsRetextPanel, TRUE)
    /\ pendingUpdates = <<UpdateData(TRUE, None, <<>>)>>

SpecRetextPanel == InitRetextPanel /\ [][NextRetextPanel]_vars

\* ------------------------------------------------------- nested documents
MaxNestedLen == 2

MaxStepsNested == 5

\* the texts of the blocks of a loaded document: runs of a flagged letter
NestedTexts == UNION {[1..k -> {"A"}] : k \in 0..MaxNestedLen}

NestedLeaves == {Paragraph(t) : t \in NestedTexts} \cup {CodeBlock(t) : t \in NestedTexts}

\* the loaded documents: a block followed by a quote of two blocks
NestedDocs == {<<b, Blockquote(<<c, e>>)>> : b \in NestedLeaves, c \in NestedLeaves, e \in NestedLeaves}

\* the positions inside the text blocks of d, which starts at position start
RECURSIVE TextPositions(_, _)
TextPositions(d, start) ==
    UNION {IF HasChildren(d[i])
           THEN TextPositions(d[i].children, start + NodePos(d, i) + 1)
           ELSE {start + NodePos(d, i) + 1 + o : o \in 0..Len(d[i].text)} : i \in 1..Len(d)}

\* the ranges that the contents of the code blocks of d occupy
RECURSIVE CodeRanges(_, _)
CodeRanges(d, start) ==
    UNION {IF HasChildren(d[i])
           THEN CodeRanges(d[i].children, start + NodePos(d, i) + 1)
           ELSE IF d[i].type = "codeBlock" /\ d[i].text # <<>>
                THEN {[from |-> start + NodePos(d, i) + 1, to |-> start + NodePos(d, i) + 1 + Len(d[i].text)]}
                ELSE {} : i \in 1..Len(d)}

\* a document with nested blocks is loaded; the user moves the cursor, the
\* initial check and the debounced analysis run, a host may start the load check
NextNested ==
    \/ \E p \in TextPositions(doc, 0) : MoveCursor(p)
    \/ InitialCheckTimeout
    \/ TimerFire
    \/ \E k \in 1..Len(inflight), ok \in BOOLEAN : Resolve(k, ok)
    \/ triggerInitialSpellCheck
    \/ \E b \in 1..Len(batches) : \E i \in 1..Len(batches[b]), ok \in BOOLEAN : SettleBatchCall(b, i, ok)

InitNested ==
    \E d \in NestedDocs :
        /\ Mounted(d, MaxStepsNested, FALSE)

SpecNested == InitNested /\ [][NextNested]_vars

\* ---------------------------------------------------------- long documents
\* the capacity after which part_006 prunes its paragraph cache
CacheCapacity == 100

ManyBlocks == 101

MaxStepsManyBlocks == 520

\* a loaded document of ManyBlocks paragraphs that the analyzer accepts
ManyBlocksDoc == [i \in 1..ManyBlocks |-> Paragraph(<<"B">>)]

\* the cache key of the paragraph the cursor is in
CurrentKey == NodePos(doc, BlockOfCursor(doc, selection))

\* The user goes through the document paragraph by paragraph: in each one
\* they switch a category, which calls the debounced analysis, wait for the
\* answer and for the update, and move the cursor to the next paragraph.
NextManyBlocks ==
    \/ /\ AnalysisSettled
       /\ CurrentKey \in DOMAIN languageToolCache
       /\ BlockOfCursor(doc, selection) < Len(doc)
       /\ MoveCursor(NodePos(doc, BlockOfCursor(doc, selection) + 1) + 1)
    \/ /\ AnalysisSettled
       /\ CurrentKey \notin DOMAIN languageToolCache
       /\ handleToggleCategory("clarity")
    \/ InitialCheckTimeout
    \/ TimerFire
    \/ \E k \in 1..Len(inflight) : Resolve(k, TRUE)
    \/ DeliverUpdate

InitManyBlocks == Mounted(ManyBlocksDoc, MaxStepsManyBlocks, TRUE)

SpecManyBlocks == InitManyBlocks /\ [][NextManyBlocks]_vars

\* ------------------------------------------------------ claims on the panel
\* the finding w of the panel matches no finding of the store, by its key or
\* by its position, or is no longer inside the document
Missing(w) ==
    \/ \A k \in 1..Len(misspelledWords) :
          /\ ~(misspelledWords[k].word = w.word /\ misspelledWords[k].from = w.from /\ misspelledWords[k].ruleId = w.ruleId)
          /\ ~(misspelledWords[k].from = w.from /\ misspelledWords[k].to = w.to)
    \/ ~ValidRange(doc, w)

\* C22: focusing a finding of the panel that no longer exists, or whose range
\* is no longer inside the document, leaves nothing focused and throws nothing.
C22_FocusOfMissingFindingClears ==
    [][\A w \in PanelWords : (Missing(w) /\ focusWord(w.from, w.to)) => (focusedWordId' = None /\ ~uncaughtError')]_vars

\* the finding w is in the store
Stored(words, w) == \E k \in 1..Len(words) : words[k].word = w.word /\ words[k].from = w.from

\* C23: after replaceWord is applied to the range of a finding of the store,
\* the store no longer holds that finding.
C23_ReplacementRemovesFinding ==
    [][\A w \in PanelWords : \A r \in Replacements(w) :
          (Stored(misspelledWords, w) /\ replaceWord(w.from, w.to, r)) => ~Stored(misspelledWords', w)]_vars

\* C24: in the data delivered through onUpdate every finding of misspelledWords
\* is in exactly one of the two category lists, and the lists hold nothing else.
C24_DeliveredPartition ==
    LET store == Elements(spellCheckData.misspelledWords)
        correctness == Elements(spellCheckData.categorizedErrors.correctness)
        clarity == Elements(spellCheckData.categorizedErrors.clarity)
    IN  /\ \A w \in store : (w \in correctness) # (w \in clarity)
        /\ correctness \cup clarity \subseteq store

\* C25: once the analysis that a toggleCategory call starts has settled, no
\* inline decoration shows a finding of a disabled category.
C25_DisabledCategoryNotDecorated == AnalysisSettled => \A dd \in decorations : categories[dd.category]

\* ignoreWord(word) has been called and the store has no finding of that word since
Ignored(word) == toLowerCase(word) \in ignoredWords /\ \A k \in 1..Len(misspelledWords) : ~SameWordIgnoringCase(misspelledWords[k].word, word)

\* the cursor moves to p, where no finding is, while nothing is focused
ClearFocusAt(p) ==
    /\ focusedWordId = None
    /\ \A k \in 1..Len(misspelledWords) : ~(p >= misspelledWords[k].from /\ p <= misspelledWords[k].to)
    /\ MoveCursor(p)

\* C30: a second ignoreWord(w), and a cursor change to a place without a
\* finding while nothing is focused, leave the ignore set, the store and the
\* focus as they were and throw nothing.
C30_IgnoreAndClearFocusIdempotent ==
    [][((\E w \in PanelWords : Ignored(w.word) /\ ignoreWord(w.word)) \/ (\E p \in CursorPositions(doc) : ClearFocusAt(p)))
          => (ignoredWords' = ignoredWords /\ misspelledWords' = misspelledWords
              /\ focusedWordId' = focusedWordId /\ uncaughtError' = uncaughtError)]_vars

\* a finding of the panel has been ignored and can be ignored again, and the
\* cursor can move to a place without a finding while nothing is focused
C30_IgnoredWordStillInPanel ==
    /\ budget > 0
    /\ focusedWordId = None
    /\ \E w \in PanelWords : Ignored(w.word)
    /\ \E p \in CursorPositions(doc) : p # selection /\ \A k \in 1..Len(misspelledWords) : ~(p >= misspelledWords[k].from /\ p <= misspelledWords[k].to)

\* the download of the dictionary has failed
LoadFailed == ~dictionaryLoading /\ ~spellChecker

\* C28: after the dictionary failed to load, the data reported through
\* onUpdate has an error and isLoading = FALSE, and no analysis puts a finding
\* in the store.
C28_LoadFailureStays ==
    (LoadFailed /\ pendingUpdates = <<>>) =>
        (spellCheckData.error # None /\ ~spellCheckData.isLoading /\ misspelledWords = <<>>)

\* the calls that have been sent to the analyzer and not yet answered
SentCalls ==
    {[text |-> inflight[k].text, position |-> inflight[k].position] : k \in 1..Len(inflight)}
        \cup UNION {{[text |-> batches[b][i].text, position |-> batches[b][i].position] : i \in 1..Len(batches[b])} : b \in 1..Len(batches)}

\* the content of a code block lies inside the node the call was made for
HoldsCode(c) == \E r \in CodeRanges(doc, 0) : c.position.from < r.from /\ r.to < c.position.to

Overlaps(dd, r) == dd.from < r.to /\ r.from < dd.to

\* C27: no text sent to the analyzer comes from a node that holds the
\* content of a code block, and no decoration covers content of a code block.
C27_CodeBlocksNotAnalyzed ==
    /\ \A c \in SentCalls : ~HoldsCode(c)
    /\ \A dd \in decorations : \A r \in CodeRanges(doc, 0) : ~Overlaps(dd, r)

\* C29: the result cache of the LanguageTool variant never holds more
\* entries than the capacity.
C29_CacheWithinCapacity == Cardinality(DOMAIN languageToolCache) <= CacheCapacity

\* C31: whenever replaceWord is invoked with the range of a finding shown in
\* the panel, the text of the live document in that range is the finding's
\* text.
C31_ReplaceHitsFlaggedText ==
    [][\A w \in PanelWords : \A r \in Replacements(w) :
          replaceWord(w.from, w.to, r) => Slice(doc, w.from, w.to) = w.word]_vars

\* a finding shown in the panel whose range holds other text of the document
C31_PanelRangeHoldsOtherText ==
    \E w \in PanelWords : BlocksHolding(doc, w.from, w.to) # {} /\ Slice(doc, w.from, w.to) # w.word

\* ------------------------------------------------- claims on failed calls
\* C32: a failed analyzer call does not write the cache: the step that
\* settles a call with a failure leaves every CacheEntry as it was.
C32_FailedCallLeavesCache ==
    [][\A k \in 1..Len(inflight) : Resolve(k, FALSE) => languageToolCache' = languageToolCache]_vars

\* a block whose text has matches is cached as having none
C32_FailureCachedAsNoFindings ==
    \E key \in DOMAIN languageToolCache :
        languageToolCache[key].suggestions = <<>> /\ checkGrammar(languageToolCache[key].text) # <<>>

\* ------------------------------------------------------ claims on the focus
\* the findings of the store whose key (text, from, ruleId, index) is id
WithKey(id) == {k \in 1..Len(misspelledWords) : Some(WordId(misspelledWords, k)) = id}

\* C33: in every state focusedWordId is null or the key of exactly one
\* finding currently in the store.
C33_FocusIsLiveFinding == focusedWordId = None \/ Cardinality(WithKey(focusedWordId)) = 1

\* C34: the decoration set of the editor state marks as focused exactly the
\* finding whose key is focusedWordId, and marks none when focusedWordId is
\* null: a decoration is marked if and only if it carries that key.
C34_DecorationsShowFocus == \A dd \in decorations : dd.focused <=> (Some(dd.wordId) = focusedWordId)

\* ------------------------------------------------ claims on nested blocks
\* C36: in any one analysis pass the ranges of the analyzed blocks are
\* pairwise disjoint: no two calls of a pass share a position of the
\* document.
C36_BlocksOfPassDisjoint ==
    \A b \in 1..Len(batches) : \A i, j \in 1..Len(batches[b]) :
        i # j => (batches[b][i].position.to <= batches[b][j].position.from
                  \/ batches[b][j].position.to <= batches[b][i].position.from)

\* ------------------------------------------------- claims on the updates
\* an analysis pass of the enabled extension finishes: the debounced check
\* runs and dispatches no call, or an analyzer call settles
PassFinishes ==
    /\ enabled
    /\ \/ TimerFire /\ inflight' = inflight
       \/ \E k \in 1..Len(inflight), ok \in BOOLEAN : Resolve(k, ok)

\* C35: when an analysis pass finishes, an update with isLoading = false and
\* the store's findings is on its way to the panel, or the panel already
\* shows the store's findings and no loading state.
C35_PassEndsWithUpdate ==
    [][PassFinishes => (\/ pendingUpdates' # <<>>
                        \/ ~spellCheckData'.isLoading /\ spellCheckData'.misspelledWords = misspelledWords')]_vars

\* ---------------------------------------------------------- document store
MaxStepsStore == 7

MaxStoreCalls == 2

MaxDocs == 1

Users == {"A", "B"}

\* the rows of the documents table with user_id = u
DocumentsOf(u) == {[id |-> <<u, i>>, user_id |-> u] : i \in 1..MaxDocs}

\* an event of the document store
StoreTick ==
    /\ Countdown
    /\ UNCHANGED editorVars
    /\ UNCHANGED languageToolVars
    /\ UNCHANGED retextVars
    /\ UNCHANGED panelVars
    /\ UNCHANGED saveVars

\* The part of an action of the store before its await: nothing happens while
\* loading is set; otherwise loading is set and the server action is called in
\* the session of the user the store holds.
StartStoreCall(op, documentId) ==
    /\ ~loading
    /\ Len(storeCalls) < MaxStoreCalls
    /\ loading' = TRUE
    /\ storeError' = None
    /\ storeCalls' = Append(storeCalls, [op |-> op, user |-> currentUserId, documentId |-> documentId])
    /\ UNCHANGED <<documents, currentUserId>>

fetchDocuments == StoreTick /\ StartStoreCall("fetchDocuments", None)

addDocument == StoreTick /\ StartStoreCall("addDocument", None)

removeDocument(documentId) == StoreTick /\ StartStoreCall("removeDocument", Some(documentId))

\* the catch block of the three actions
StoreCallFails(message) ==
    IF currentUserId # None
    THEN /\ storeError' = Some(message)
         /\ loading' = FALSE
         /\ UNCHANGED <<documents, currentUserId>>
    ELSE UNCHANGED <<documents, loading, storeError, currentUserId>>

\* getUserDocuments settles: it answers with rows of the user of the call's
\* session, or throws (always when the session has no user)
FetchSettles(k, ok, result) ==
    /\ StoreTick
    /\ storeCalls[k].op = "fetchDocuments"
    /\ storeCalls' = RemoveAt(storeCalls, k)
    /\ IF ok
       THEN /\ storeCalls[k].user # None
            /\ result \in SUBSET DocumentsOf(storeCalls[k].user[1])
            /\ IF currentUserId # None
               THEN /\ documents' = result
                    /\ loading' = FALSE
                    /\ UNCHANGED <<storeError, currentUserId>>
               ELSE UNCHANGED <<documents, loading, storeError, currentUserId>>
       ELSE /\ result = {}
            /\ StoreCallFails("Failed to fetch documents")

\* createDocument settles: nothing follows the await
AddSettles(k, ok) ==
    /\ StoreTick
    /\ storeCalls[k].op = "addDocument"
    /\ storeCalls' = RemoveAt(storeCalls, k)
    /\ IF ok
       THEN /\ storeCalls[k].user # None
            /\ UNCHANGED <<documents, loading, storeError, currentUserId>>
       ELSE StoreCallFails("Failed to create document")

\* deleteDocument settles
RemoveSettles(k, ok) ==
    /\ StoreTick
    /\ storeCalls[k].op = "removeDocument"
    /\ storeCalls' = RemoveAt(storeCalls, k)
    /\ IF ok
       THEN /\ storeCalls[k].user # None
            /\ IF currentUserId # None
               THEN /\ documents' = {d \in documents : Some(d.id) # storeCalls[k].documentId}
                    /\ loading' = FALSE
                    /\ UNCHANGED <<storeError, currentUserId>>
               ELSE UNCHANGED <<documents, loading, storeError, currentUserId>>
       ELSE StoreCallFails("Failed to delete document")

\* setCurrentUserId(userId) with a value other than the one held
setCurrentUserId(userId) ==
    /\ StoreTick
    /\ userId # currentUserId
    /\ currentUserId' = userId
    /\ IF currentUserId # None
       THEN /\ documents' = {}
            /\ loading' = FALSE
            /\ storeError' = None
       ELSE UNCHANGED <<documents, loading, storeError>>
    /\ UNCHANGED storeCalls

NextStore ==
    \/ fetchDocuments
    \/ addDocument
    \/ \E d \in documents : removeDocument(d.id)
    \/ \E k \in 1..Len(storeCalls), ok \in BOOLEAN :
          \E result \in SUBSET (UNION {DocumentsOf(u) : u \in Users}) : FetchSettles(k, ok, result)
    \/ \E k \in 1..Len(storeCalls), ok \in BOOLEAN : AddSettles(k, ok)
    \/ \E k \in 1..Len(storeCalls), ok \in BOOLEAN : RemoveSettles(k, ok)
    \/ \E userId \in {None} \cup {Some(u) : u \in Users} : setCurrentUserId(userId)

InitStore == Mounted(<<Paragraph(<<>>)>>, MaxStepsStore, FALSE)

SpecStore == InitStore /\ [][NextStore]_vars

\* ------------------------------------------------ auto-save of the editor
MaxStepsSave == 7

MaxEdits == 3

MaxSaves == 2

\* an event of the document editor's auto-save
SaveTick ==
    /\ Countdown
    /\ UNCHANGED editorVars
    /\ UNCHANGED languageToolVars
    /\ UNCHANGED retextVars
    /\ UNCHANGED panelVars
    /\ UNCHANGED storeVars

\* title !== lastSavedTitleRef.current || content !== lastSavedContentRef.current
hasChanges(content, lastSaved) == content # lastSaved

\* The effect that arms the 2-second timeout.  It runs again when title,
\* content or isSaving changed: it clears the timeout and arms a new one if
\* there are changes and nothing is being saved.
ArmAutoSave(content, lastSaved, saving) ==
    autoSaveTimeout' = IF content # currentContent \/ saving # isSaving
                       THEN hasChanges(content, lastSaved) /\ ~saving
                       ELSE autoSaveTimeout

\* autoSave() of the render whose title and content are `snapshot`, up to its
\* await: it returns if the snapshot equals the last saved values, else sets
\* isSaving and calls updateDocument with the snapshot.  `fired` tells that
\* the call comes from the 2-second timeout, which is then no longer pending.
autoSave(snapshot, fired) ==
    IF hasChanges(snapshot, lastSavedContent)
    THEN /\ Len(saves) < MaxSaves
         /\ isSaving' = TRUE
         /\ saves' = Append(saves, [content |-> snapshot])
         /\ autoSaveTimeout' = FALSE
         /\ UNCHANGED <<currentContent, lastSavedContent, persisted>>
    ELSE /\ autoSaveTimeout' = (autoSaveTimeout /\ ~fired)
         /\ UNCHANGED <<currentContent, lastSavedContent, isSaving, saves, persisted>>

\* updateCurrentTitle or updateCurrentContent: the user edits the title or
\* the text, and the component renders with the new values
EditTitleOrContent ==
    /\ SaveTick
    /\ currentContent < MaxEdits
    /\ currentContent' = currentContent + 1
    /\ ArmAutoSave(currentContent + 1, lastSavedContent, isSaving)
    /\ UNCHANGED <<lastSavedContent, isSaving, saves, persisted>>

\* the 2-second timeout fires: autoSave of the render that armed it, whose
\* title and content are the current ones (any change armed a new timeout)
AutoSaveTimeoutFires ==
    /\ SaveTick
    /\ autoSaveTimeout
    /\ autoSave(currentContent, TRUE)

\* The 30-second interval fires.  Its effect depends on document.id only, so
\* it holds isSaving (false) and autoSave of the first render, whose title and
\* content are the document as loaded; the test of changes reads the store.
BackupIntervalFires ==
    /\ SaveTick
    /\ hasChanges(currentContent, lastSavedContent)
    /\ autoSave(0, FALSE)

\* handleTitleBlur: autoSave if there are changes
handleTitleBlur ==
    /\ SaveTick
    /\ hasChanges(currentContent, lastSavedContent)
    /\ autoSave(currentContent, FALSE)

\* handleManualSave: the button is disabled while isSaving
handleManualSave ==
    /\ SaveTick
    /\ ~isSaving
    /\ autoSave(currentContent, FALSE)

\* updateDocument settles for the oldest call (calls are served in the order
\* made): the server has written the snapshot or the call throws; autoSave
\* sets the refs on success and clears isSaving in either case.
SaveSettles(ok) ==
    /\ SaveTick
    /\ saves # <<>>
    /\ saves' = Tail(saves)
    /\ isSaving' = FALSE
    /\ persisted' = IF ok THEN Head(saves).content ELSE persisted
    /\ lastSavedContent' = IF ok THEN Head(saves).content ELSE lastSavedContent
    /\ ArmAutoSave(currentContent, IF ok THEN Head(saves).content ELSE lastSavedContent, FALSE)
    /\ UNCHANGED currentContent

NextSave ==
    \/ EditTitleOrContent
    \/ AutoSaveTimeoutFires
    \/ BackupIntervalFires
    \/ handleTitleBlur
    \/ handleManualSave
    \/ \E ok \in BOOLEAN : SaveSettles(ok)

InitSave == Mounted(<<Paragraph(<<>>)>>, MaxStepsSave, FALSE)

SpecSave == InitSave /\ [][NextSave]_vars

\* ------------------------------------------------ claims on the document store
\* the call k is a fetchDocuments call started while a user was current who
\* is no longer the current user
StartedAsOtherUser(k) ==
    /\ storeCalls[k].op = "fetchDocuments"
    /\ storeCalls[k].user # None
    /\ currentUserId # None
    /\ storeCalls[k].user # currentUserId

\* C37: the result of a fetchDocuments call started while user A was current
\* is never placed in the store after the current user has changed to a
\* different user B.
C37_FetchOfOtherUserNotStored ==
    [][\A k \in 1..Len(storeCalls) : \A result \in SUBSET (UNION {DocumentsOf(u) : u \in Users}) :
          (StartedAsOtherUser(k) /\ FetchSettles(k, TRUE, result)) => documents' = documents]_vars

\* C38: a fetchDocuments, addDocument or removeDocument call that has set
\* loading leaves loading = false when its server call settles, with success
\* or failure, whatever currentUserId is at that time: when the only call in
\* flight settles, loading is false.
C38_SettledCallReleasesLoading ==
    [][(\E k \in 1..Len(storeCalls), ok \in BOOLEAN :
           /\ Len(storeCalls) = 1
           /\ \/ \E result \in SUBSET (UNION {DocumentsOf(u) : u \in Users}) : FetchSettles(k, ok, result)
              \/ AddSettles(k, ok)
              \/ RemoveSettles(k, ok)) => ~loading']_vars

\* --------------------------------------------------- claims on the auto-save
\* a save has started: autoSave has called updateDocument
SaveStarts == Len(saves') > Len(saves)

\* C39: every save writes the editor's title and content as they are when
\* the save starts, at most one save is in flight at a time, and no save
\* persists a snapshot older than one that was already persisted.
C39_SavesInOrder ==
    [][/\ SaveStarts => saves'[Len(saves')].content = currentContent
       /\ Len(saves') <= 1
       /\ persisted' >= persisted]_vars

\* a save persists a snapshot older than the one the server holds
C39_OlderSnapshotPersisted == saves # <<>> /\ Head(saves).content < persisted

====
